---- MODULE Spec2Model ----
(***************************************************************************)
(* A model of scientific_writer: the progress emitter and result pipeline  *)
(* of generate_paper (api.py) and the input-file ingestion of              *)
(* process_data_files / extract_images_from_docx (core.py).                *)
(*                                                                         *)
(* Python strings are TLA+ strings handled as character sequences (Len,    *)
(* SubSeq, \o), so `in`, lower(), replace(), split() and the pathlib       *)
(* accessors are computed, not assumed.                                    *)
(***************************************************************************)
EXTENDS Integers, Sequences, FiniteSets, TLC

(***************************************************************************)
(* Python values that may or may not be strings (tool arguments, optional  *)
(* returns): a tag and, for a string, its text.                            *)
(***************************************************************************)
PyStr(s) == [t |-> "str", s |-> s]
PyNone == [t |-> "none", s |-> ""]
\* a non-zero number such as 7
PyNum == [t |-> "num", s |-> ""]
\* a key that the mapping does not hold
Absent == [t |-> "absent", s |-> ""]

\* bool(v) of a Python value
Truthy(v) == IF v.t = "str" THEN v.s # "" ELSE v.t = "num"

\* type(v).__name__ as it appears in the interpreter's error messages
TypeName(v) == IF v.t = "none" THEN "NoneType" ELSE IF v.t = "num" THEN "int" ELSE "str"

\* dict.get(key, default) on a mapping whose missing keys are Absent
DictGet(d, k, default) == IF d[k].t = "absent" THEN default ELSE d[k]

\* the member of a singleton: The({F(x) : x \in {e}}) is F(e) with e computed once
The(S) == CHOOSE x \in S : TRUE

(***************************************************************************)
(* str methods                                                             *)
(***************************************************************************)
UpperAlpha == "ABCDEFGHIJKLMNOPQRSTUVWXYZ"

LowerAlpha == "abcdefghijklmnopqrstuvwxyz"

LowerChar(c) ==
    IF \E i \in 1..Len(UpperAlpha) : SubSeq(UpperAlpha, i, i) = c
    THEN LET i == CHOOSE j \in 1..Len(UpperAlpha) : SubSeq(UpperAlpha, j, j) = c
         IN  SubSeq(LowerAlpha, i, i)
    ELSE c

RECURSIVE LowerFrom(_, _)
LowerFrom(s, i) ==
    IF i > Len(s) THEN "" ELSE LowerChar(SubSeq(s, i, i)) \o LowerFrom(s, i + 1)

\* s.lower()
Lower(s) == LowerFrom(s, 1)

\* sub in s
Contains(s, sub) ==
    \E i \in 1..(Len(s) - Len(sub) + 1) : SubSeq(s, i, i + Len(sub) - 1) = sub

\* s.startswith(prefix)
StartsWith(s, prefix) == Len(prefix) <= Len(s) /\ SubSeq(s, 1, Len(prefix)) = prefix

RECURSIVE RemoveFrom(_, _, _)
\* the scan of replace(): left to right, occurrences not overlapping
RemoveFrom(s, sub, i) ==
    IF i > Len(s) THEN ""
    ELSE IF i + Len(sub) - 1 <= Len(s) /\ SubSeq(s, i, i + Len(sub) - 1) = sub
    THEN RemoveFrom(s, sub, i + Len(sub))
    ELSE SubSeq(s, i, i) \o RemoveFrom(s, sub, i + 1)

\* s.replace(sub, ''), sub not empty
Remove(s, sub) == RemoveFrom(s, sub, 1)

\* the greatest member of a set of numbers, 0 for the empty set
MaxOr0(S) == The({IF T = {} THEN 0 ELSE CHOOSE i \in T : \A j \in T : j <= i : T \in {S}})

\* the least member of a set of numbers, otherwise for the empty set
MinOr(S, otherwise) ==
    The({IF T = {} THEN otherwise ELSE CHOOSE i \in T : \A j \in T : i <= j : T \in {S}})

\* s.rfind(c) + 1 for a character c: its last position in s, 0 when absent
RFind(s, c) == MaxOr0({i \in 1..Len(s) : SubSeq(s, i, i) = c})

IsSpace(c) == c = " "

\* s.split()[0] when s.split() is not empty, "" otherwise
FirstToken(s) ==
    The({SubSeq(s, start, MinOr({i \in start..Len(s) : IsSpace(SubSeq(s, i, i))},
                                Len(s) + 1) - 1) :
            start \in {MinOr({i \in 1..Len(s) : ~IsSpace(SubSeq(s, i, i))}, Len(s) + 1)}})

\* s[:n]
Prefix(s, n) == SubSeq(s, 1, IF Len(s) < n THEN Len(s) ELSE n)

(***************************************************************************)
(* pathlib                                                                 *)
(***************************************************************************)
\* Path(p).name: the last component of p, empty components (doubled or
\* trailing separators) and "." components dropped
\* position i of p is a separator, or lies just outside p
IsSep(p, i) == i = 0 \/ i = Len(p) + 1 \/ SubSeq(p, i, i) = "/"

\* the component of p that starts at i
ComponentAt(p, i) == SubSeq(p, i, MinOr({j \in i..Len(p) : IsSep(p, j + 1)}, Len(p)))

PathName(p) ==
    The({IF first = 0 THEN "" ELSE ComponentAt(p, first) :
            first \in {MaxOr0({i \in 1..Len(p) :
                                 /\ IsSep(p, i - 1)
                                 /\ ~IsSep(p, i)
                                 /\ ComponentAt(p, i) # "."})}})

\* Path(p).suffix: from the last dot of the name, unless the dot leads or ends it
SuffixOfName(name, i) == IF 1 < i /\ i < Len(name) THEN SubSeq(name, i, Len(name)) ELSE ""

PathSuffix(p) ==
    The({The({SuffixOfName(name, i) : i \in {RFind(name, ".")}}) : name \in {PathName(p)}})

(***************************************************************************)
(* The outcome of a call: a value, or an exception with its str().         *)
(***************************************************************************)
Return(v) == [raised |-> FALSE, exc |-> "", val |-> v]

Raise(e) == [raised |-> TRUE, exc |-> e, val |-> <<>>]

(***************************************************************************)
(* api.py: the classifiers                                                 *)
(***************************************************************************)
stage_order == <<"initialization", "planning", "research", "writing", "compilation", "complete">>

\* stage_order.index(stage)
StageIndex(stage) == CHOOSE i \in 1..Len(stage_order) : stage_order[i] = stage

\* every stage taken for the first of the order
AlwaysFirstIdx(current_stage) == 1

\* stage_order.index(current_stage) if current_stage in stage_order else 0
CurrentIdx(current_stage) ==
    IF \E i \in 1..Len(stage_order) : stage_order[i] = current_stage
    THEN StageIndex(current_stage)
    ELSE 1

_analyze_progress(text, current_stage) ==
    LET text_lower == Lower(text)
        current_idx == CurrentIdx(current_stage)
    IN  IF /\ current_idx < StageIndex("compilation")
           /\ \/ Contains(text_lower, "pdflatex")
              \/ Contains(text_lower, "latexmk")
              \/ Contains(text_lower, "compiling")
        THEN <<"compilation", PyStr("Compiling document")>>
        ELSE IF /\ current_idx < StageIndex("complete")
                /\ \/ Contains(text_lower, "successfully compiled")
                   \/ Contains(text_lower, "pdf generated")
        THEN <<"complete", PyStr("Finalizing output")>>
        ELSE <<current_stage, PyNone>>

_detect_document_type(file_path) ==
    LET path_lower == Lower(file_path)
    IN  IF \/ Contains(path_lower, "slide")
           \/ Contains(path_lower, "presentation")
           \/ Contains(path_lower, "beamer")
        THEN "slides"
        ELSE IF Contains(path_lower, "poster") THEN "poster"
        ELSE IF Contains(path_lower, "report") THEN "report"
        ELSE IF Contains(path_lower, "grant") \/ Contains(path_lower, "proposal") THEN "grant"
        ELSE "document"

\* the dict literal, in insertion order
section_mappings ==
    << <<"abstract", "abstract">>,
       <<"intro", "introduction">>,
       <<"introduction", "introduction">>,
       <<"method", "methods">>,
       <<"methods", "methods">>,
       <<"methodology", "methodology">>,
       <<"result", "results">>,
       <<"results", "results">>,
       <<"discussion", "discussion">>,
       <<"conclusion", "conclusion">>,
       <<"conclusions", "conclusions">>,
       <<"background", "background">>,
       <<"related", "related work">>,
       <<"experiment", "experiments">>,
       <<"experiments", "experiments">>,
       <<"evaluation", "evaluation">>,
       <<"appendix", "appendix">>,
       <<"supplement", "supplementary material">> >>

\* the first key, in the order of the dict, that occurs in name_lower
FirstSection(name_lower) ==
    The({IF first = 0 THEN PyNone ELSE PyStr(section_mappings[first][2]) :
            first \in {MinOr({i \in 1..Len(section_mappings) :
                                Contains(name_lower, section_mappings[i][1])}, 0)}})

\* the lookup on the name in the casing it was written in
SectionAsWritten(filename) ==
    The({FirstSection(name) : name \in {Remove(Remove(filename, ".tex"), ".md")}})

_get_section_from_filename(filename) ==
    The({FirstSection(name_lower) :
            name_lower \in {Remove(Remove(Lower(filename), ".tex"), ".md")}})

\* tool_name.lower() == "read"
AnalyzeRead(file_path, filename, current_stage) ==
    IF Contains(file_path, ".bib") THEN <<"writing", "Reading bibliography: " \o filename>>
    ELSE IF Contains(file_path, ".tex")
    THEN LET section == _get_section_from_filename(filename)
         IN  IF Truthy(section) THEN <<"writing", "Reading " \o section.s \o " section">>
             ELSE <<"writing", "Reading " \o filename>>
    ELSE IF Contains(file_path, ".pdf") THEN <<"research", "Analyzing PDF: " \o filename>>
    ELSE IF Contains(file_path, ".csv") THEN <<"research", "Loading data from " \o filename>>
    ELSE IF Contains(file_path, ".json") THEN <<"research", "Reading configuration: " \o filename>>
    ELSE IF Contains(file_path, ".md") THEN <<"planning", "Reading " \o filename>>
    ELSE IF file_path # "" THEN <<current_stage, "Reading " \o filename>>
    ELSE <<>>

\* the write branch without the test for a main file
AnalyzeWriteNoMain(file_path, filename, doc_type, current_stage) ==
    IF CurrentIdx(current_stage) < StageIndex("writing")
    THEN <<"writing", "Writing " \o doc_type \o ": " \o filename>>
    ELSE <<"compilation", "Updating " \o filename>>

\* tool_name.lower() == "write"
AnalyzeWrite(file_path, filename, doc_type, current_stage) ==
    IF Contains(file_path, ".bib") THEN <<"writing", "Creating bibliography with references">>
    ELSE IF Contains(file_path, ".tex")
    THEN LET section == _get_section_from_filename(filename)
         IN  IF Truthy(section) THEN <<"writing", "Writing " \o section.s \o " section">>
             ELSE IF Contains(Lower(filename), "main")
             THEN <<"writing", "Creating main " \o doc_type \o " structure">>
             ELSE IF CurrentIdx(current_stage) < StageIndex("writing")
             THEN <<"writing", "Writing " \o doc_type \o ": " \o filename>>
             ELSE <<"compilation", "Updating " \o filename>>
    ELSE IF Contains(file_path, ".md")
    THEN IF Contains(Lower(filename), "progress") THEN <<"writing", "Updating progress log">>
         ELSE IF Contains(Lower(filename), "readme") THEN <<"complete", "Creating documentation">>
         ELSE <<"writing", "Writing " \o filename>>
    ELSE IF Contains(file_path, ".sty") THEN <<"writing", "Creating style file: " \o filename>>
    ELSE IF Contains(file_path, ".cls") THEN <<"writing", "Creating document class: " \o filename>>
    ELSE IF file_path # "" THEN <<current_stage, "Creating " \o filename>>
    ELSE <<>>

\* tool_name.lower() == "edit"
AnalyzeEdit(file_path, filename, current_stage) ==
    IF Contains(file_path, ".tex")
    THEN LET section == _get_section_from_filename(filename)
         IN  IF Truthy(section) THEN <<"writing", "Refining " \o section.s \o " section">>
             ELSE <<"writing", "Editing " \o filename>>
    ELSE IF Contains(file_path, ".bib") THEN <<"writing", "Updating bibliography">>
    ELSE IF file_path # "" THEN <<current_stage, "Editing " \o filename>>
    ELSE <<>>

\* tool_name.lower() == "bash"
AnalyzeBash(command, current_stage) ==
    IF Contains(command, "pdflatex")
    THEN IF Contains(command, "-output-directory")
         THEN <<"compilation", "Compiling PDF with output directory">>
         ELSE <<"compilation", "Compiling LaTeX to PDF">>
    ELSE IF Contains(command, "latexmk") THEN <<"compilation", "Running full LaTeX compilation pipeline">>
    ELSE IF Contains(command, "bibtex") THEN <<"compilation", "Processing bibliography citations">>
    ELSE IF Contains(command, "makeindex") THEN <<"compilation", "Building document index">>
    ELSE IF Contains(command, "mkdir")
    THEN IF Contains(command, "writing_outputs") \/ Contains(Lower(command), "output")
         THEN <<"initialization", "Creating output directory">>
         ELSE IF Contains(Lower(command), "figures")
         THEN <<"initialization", "Setting up figures directory">>
         ELSE IF Contains(Lower(command), "drafts")
         THEN <<"initialization", "Setting up drafts directory">>
         ELSE <<"initialization", "Creating directory structure">>
    ELSE IF Contains(command, "cp ")
    THEN IF Contains(command, ".pdf") THEN <<"complete", "Copying final PDF to output">>
         ELSE IF Contains(command, ".tex") THEN <<"complete", "Archiving LaTeX source">>
         ELSE <<"complete", "Organizing files">>
    ELSE IF Contains(command, "mv ") THEN <<"complete", "Moving files to final location">>
    ELSE IF Contains(command, "ls ") \/ Contains(command, "cat ") THEN <<>>
    ELSE IF command # ""
    THEN LET cmd_preview == IF FirstToken(command) # "" THEN FirstToken(command)
                            ELSE Prefix(command, 30)
         IN  <<current_stage, "Running " \o cmd_preview>>
    ELSE <<>>

\* query_text[:n] + "..." if len(query_text) > n else query_text
Truncated(query_text, n) ==
    IF Len(query_text) > n THEN Prefix(query_text, n) \o "..." ELSE query_text

\* the research/lookup and search/web branches, on the query they read
AnalyzeSearch(query_text, n, label, generic) ==
    IF Truthy(query_text)
    THEN IF query_text.t # "str"
         THEN Raise("object of type '" \o TypeName(query_text) \o "' has no len()")
         ELSE Return(<<"research", label \o Truncated(query_text.s, n)>>)
    ELSE Return(<<"research", generic>>)

\* Returns Return(<<>>) for None, Return(<<stage, message>>), or the exception raised
_analyze_tool_use(tool_name, tool_input, current_stage) ==
    LET file_path == DictGet(tool_input, "file_path", DictGet(tool_input, "path", PyStr("")))
        command == DictGet(tool_input, "command", PyStr(""))
        name == Lower(tool_name)
    IN  IF Truthy(file_path) /\ file_path.t # "str"
        THEN Raise("expected str, bytes or os.PathLike object, not " \o TypeName(file_path))
        ELSE IF file_path.t # "str"
        THEN Raise("'" \o TypeName(file_path) \o "' object has no attribute 'lower'")
        ELSE LET filename == IF Truthy(file_path) THEN PathName(file_path.s) ELSE ""
                 doc_type == _detect_document_type(file_path.s)
             IN  IF name = "read" THEN Return(AnalyzeRead(file_path.s, filename, current_stage))
                 ELSE IF name = "write"
                 THEN Return(AnalyzeWrite(file_path.s, filename, doc_type, current_stage))
                 ELSE IF name = "edit" THEN Return(AnalyzeEdit(file_path.s, filename, current_stage))
                 ELSE IF name = "bash"
                 THEN IF command.t # "str"
                      THEN Raise("argument of type '" \o TypeName(command) \o "' is not iterable")
                      ELSE Return(AnalyzeBash(command.s, current_stage))
                 ELSE IF Contains(name, "research") \/ Contains(name, "lookup")
                 THEN AnalyzeSearch(DictGet(tool_input, "query", PyStr("")), 50,
                                    "Searching: ", "Searching literature databases")
                 ELSE IF Contains(name, "search") \/ Contains(name, "web")
                 THEN AnalyzeSearch(DictGet(tool_input, "query",
                                            DictGet(tool_input, "search_term", PyStr(""))),
                                    40, "Web search: ", "Searching online resources")
                 ELSE Return(<<>>)

(***************************************************************************)
(* api.py: the output directory resolver.  A folder is what iterdir() and  *)
(* stat() give: whether it can be read, and its entries in iteration order *)
(* as [name, is_dir, mtime].                                               *)
(***************************************************************************)
\* the "5 second buffer"
RecencyBuffer == 5

\* max(ds, key=mtime): the first entry of greatest mtime
MaxByMtime(ds) ==
    LET i == CHOOSE j \in 1..Len(ds) :
                /\ \A k \in 1..Len(ds) : ds[k].mtime <= ds[j].mtime
                /\ \A k \in 1..(j - 1) : ds[k].mtime < ds[j].mtime
    IN  ds[i]

IsDirEntry(d) == d.is_dir

\* a resolver that takes the first subdirectory listed
FirstSubdirectory(output_folder, start_time) ==
    IF ~output_folder.readable \/ SelectSeq(output_folder.entries, IsDirEntry) = <<>>
    THEN PyNone
    ELSE PyStr(output_folder.path \o "/"
               \o SelectSeq(output_folder.entries, IsDirEntry)[1].name)

\* a resolver whose fallback takes the first subdirectory listed
FallbackToFirstListed(output_folder, start_time) ==
    IF ~output_folder.readable THEN PyNone
    ELSE LET output_dirs == SelectSeq(output_folder.entries, IsDirEntry)
             IsRecent(d) == d.mtime >= start_time - RecencyBuffer
             recent == SelectSeq(output_dirs, IsRecent)
         IN  IF output_dirs = <<>> THEN PyNone
             ELSE IF recent = <<>> THEN PyStr(output_folder.path \o "/" \o output_dirs[1].name)
             ELSE PyStr(output_folder.path \o "/" \o MaxByMtime(recent).name)

\* lines 606-625
_find_most_recent_output(output_folder, start_time) ==
    IF ~output_folder.readable THEN PyNone
    ELSE LET output_dirs == SelectSeq(output_folder.entries, IsDirEntry)
             IsRecent(d) == d.mtime >= start_time - RecencyBuffer
             recent == SelectSeq(output_dirs, IsRecent)
             recent_dirs == IF recent = <<>> THEN output_dirs ELSE recent
         IN  IF output_dirs = <<>> THEN PyNone
             ELSE PyStr(output_folder.path \o "/" \o MaxByMtime(recent_dirs).name)

(***************************************************************************)
(* api.py: the result records.  The dictionaries that ProgressUpdate,      *)
(* TextUpdate and PaperResult serialise to carry the fields their          *)
(* constructors are given here.                                            *)
(***************************************************************************)
ProgressUpdate(message, stage) == [type |-> "progress", stage |-> stage, message |-> message]

ProgressUpdateWithDetails(message, stage, details) ==
    [type |-> "progress", stage |-> stage, message |-> message, details |-> details]

TextUpdate(content) == [type |-> "text", content |-> content]

TokenUsage(totals) ==
    [input_tokens |-> totals.total_input_tokens,
     output_tokens |-> totals.total_output_tokens,
     cache_creation_input_tokens |-> totals.total_cache_creation_tokens,
     cache_read_input_tokens |-> totals.total_cache_read_tokens]

\* result['token_usage'] = usage
WithTokenUsage(result, usage) ==
    [k \in DOMAIN result \cup {"token_usage"} |-> IF k = "token_usage" THEN usage ELSE result[k]]

\* an error result that drops its message
EmptyErrorResult(error_message) ==
    [type |-> "result", status |-> "failed", paper_directory |-> "", paper_name |-> "",
     errors |-> <<>>]

_create_error_result(error_message) ==
    [type |-> "result", status |-> "failed", paper_directory |-> "", paper_name |-> "",
     errors |-> <<error_message>>]

\* file_info[key] is not None
Present(v) == v.t # "none"

\* a result whose status ignores the final TeX
BuildWithoutPartial(paper_dir, file_info) ==
    [type |-> "result",
     status |-> IF Present(file_info.pdf_final) THEN "success" ELSE "failed",
     paper_directory |-> paper_dir,
     paper_name |-> PathName(paper_dir),
     files |-> file_info,
     figures_count |-> Len(file_info.figures),
     compilation_success |-> Present(file_info.pdf_final),
     errors |-> <<>>]

_build_paper_result(paper_dir, file_info) ==
    LET compilation_success == Present(file_info.pdf_final)
        status == IF compilation_success THEN "success"
                  ELSE IF Truthy(file_info.tex_final) THEN "partial"
                  ELSE "failed"
    IN  [type |-> "result",
         status |-> status,
         paper_directory |-> paper_dir,
         paper_name |-> PathName(paper_dir),
         files |-> file_info,
         figures_count |-> Len(file_info.figures),
         compilation_success |-> compilation_success,
         errors |-> <<>>]

(***************************************************************************)
(* core.py: the extension taxonomy                                         *)
(***************************************************************************)
get_image_extensions ==
    {".png", ".jpg", ".jpeg", ".gif", ".bmp", ".tiff", ".tif", ".svg", ".webp", ".ico"}

get_manuscript_extensions == {".tex"}

get_source_extensions == {".md", ".docx", ".pdf"}

get_data_extensions ==
    {".csv", ".json", ".txt", ".xlsx", ".xls", ".tsv", ".xml", ".yaml", ".yml", ".sql"}

\* the suffix in the casing of the path
SuffixAsWritten(file_path) == PathSuffix(file_path)

\* file_path.suffix.lower()
FileExt(file_path) == Lower(PathSuffix(file_path))

\* the if/elif chain of process_data_files: the file_type it assigns
FileType(file_ext) ==
    IF file_ext \in get_manuscript_extensions THEN "manuscript"
    ELSE IF file_ext \in get_image_extensions THEN "image"
    ELSE IF file_ext \in get_data_extensions THEN "data"
    ELSE "source"

\* the destination folder of a file_type, under the paper output directory
OutputFolder(paper_output, file_type) ==
    paper_output \o (CASE file_type = "manuscript" -> "/drafts"
                       [] file_type = "image" -> "/figures"
                       [] file_type = "data" -> "/data"
                       [] OTHER -> "/sources")

\* the key of processed_info a file_type is listed under
CategoryKey(file_type) == file_type \o "_files"

\* Path(f).resolve() under the working directory cwd, for a path free of
\* symbolic links and of ".." components
Resolve(cwd, f) == IF StartsWith(f, "/") THEN f ELSE cwd \o "/" \o f

\* paths given: each resolved; none given: the regular files of cwd/data
get_data_files(cwd, data_folder, data_files) ==
    IF data_files # <<>> THEN [i \in 1..Len(data_files) |-> Resolve(cwd, data_files[i])]
    ELSE IF ~data_folder.exists THEN <<>>
    ELSE LET IsFile(e) == e.is_file
             files == SelectSeq(data_folder.entries, IsFile)
         IN  [i \in 1..Len(files) |-> cwd \o "/data/" \o files[i].name]

(***************************************************************************)
(* core.py: extract_images_from_docx.  An archive is whether the file is a *)
(* readable ZIP and its namelist(); fault names the namelist position at   *)
(* which reading the entry or writing its copy raises (0: nowhere) and     *)
(* whether the target file had been opened for writing by then.  A file    *)
(* system maps a path to the origin of the bytes it holds.                 *)
(***************************************************************************)
\* the bytes of a target opened 'wb' and not written
EmptyBytes == "<empty>"

\* fs after writing content at path
WriteFile(fs, path, content) == (path :> content) @@ fs

IsMediaImage(f) ==
    /\ StartsWith(f, "word/media/")
    /\ FileExt(f) \in get_image_extensions

\* lines 177-189: one image entry read and written, and its record appended
ExtractEntry(acc, media_file, file_name, docx_path, figures_output) ==
    [acc EXCEPT !.fs = WriteFile(acc.fs, figures_output \o "/" \o file_name,
                                 docx_path \o "!" \o media_file),
                !.extracted_images = Append(@, [name |-> file_name,
                                                path |-> figures_output \o "/" \o file_name,
                                                source_docx |-> PathName(docx_path)])]

RECURSIVE ExtractEntries(_, _, _, _, _, _)
\* the for loop over media_files from namelist position i on; an exception leaves it
ExtractEntries(namelist, i, fault, docx_path, figures_output, acc) ==
    IF i > Len(namelist) THEN acc
    ELSE IF ~IsMediaImage(namelist[i])
    THEN ExtractEntries(namelist, i + 1, fault, docx_path, figures_output, acc)
    ELSE IF fault.at = i
    THEN [acc EXCEPT !.caught = TRUE,
                     !.fs = IF fault.target_opened
                            THEN WriteFile(acc.fs,
                                           figures_output \o "/" \o PathName(namelist[i]),
                                           EmptyBytes)
                            ELSE acc.fs]
    ELSE The({ExtractEntries(namelist, i + 1, fault, docx_path, figures_output, next) :
                 next \in {ExtractEntry(acc, namelist[i], PathName(namelist[i]),
                                        docx_path, figures_output)}})

\* an extractor without the except clause of line 191
BadZipFileEscapes(docx_path, figures_output, archive, fault, fs) ==
    IF ~archive.valid
    THEN [extracted_images |-> <<>>, fs |-> fs, caught |-> FALSE, raised |-> TRUE]
    ELSE ExtractEntries(archive.namelist, 1, fault, docx_path, figures_output,
                        [extracted_images |-> <<>>, fs |-> fs, caught |-> FALSE,
                         raised |-> FALSE])

\* [extracted_images, fs, caught, raised]: the list returned, the file system
\* left, whether one of the except clauses of lines 191-194 caught an exception,
\* and whether an exception left the function: BadZipFile of an archive that is
\* not valid is caught at line 191, every other Exception at line 193
extract_images_from_docx(docx_path, figures_output, archive, fault, fs) ==
    LET start == [extracted_images |-> <<>>, fs |-> fs, caught |-> FALSE, raised |-> FALSE]
    IN  IF ~archive.valid THEN [start EXCEPT !.caught = TRUE]
        ELSE ExtractEntries(archive.namelist, 1, fault, docx_path, figures_output, start)

(***************************************************************************)
(* core.py: process_data_files                                             *)
(***************************************************************************)
EmptyProcessedInfo ==
    [data_files |-> <<>>, image_files |-> <<>>, manuscript_files |-> <<>>,
     source_files |-> <<>>, all_files |-> <<>>]

\* the entry appended to the category list before the copy is tried
CategoryEntry(file_type, file_name, destination, file_path, file_ext) ==
    IF file_type \in {"manuscript", "source"}
    THEN [name |-> file_name, path |-> destination, original |-> file_path,
          extension |-> file_ext]
    ELSE [name |-> file_name, path |-> destination, original |-> file_path]

RECURSIVE Concat(_, _)
Concat(s, t) == IF t = <<>> THEN s ELSE Concat(Append(s, Head(t)), Tail(t))

\* lines 295-313, the try block after a copy that succeeded: the file is recorded,
\* the images of a .docx extracted, the original deleted on request; ex is what
\* extract_images_from_docx did, and an exception that left it ends the
\* iteration in the except clause of line 315
AfterCopy(st, listed, file_path, file_ext, file_name, file_type, destination, delete_originals, io, ex) ==
    [processed_info |->
         [listed EXCEPT !.all_files = Append(@, [name |-> file_name, type |-> file_type,
                                                 destination |-> destination]),
                        !.image_files = IF ex.raised THEN @
                                        ELSE Concat(@, ex.extracted_images)],
     fs |-> ex.fs,
     raised |-> FALSE,
     extractions |-> IF file_ext = ".docx"
                     THEN Append(st.extractions,
                                 [docx_path |-> file_path, archive |-> io.archive,
                                  fault |-> io.fault, returned |-> ex.extracted_images,
                                  caught |-> ex.caught, raised |-> ex.raised])
                     ELSE st.extractions,
     originals |-> IF ~ex.raised /\ delete_originals /\ io.unlink_ok
                   THEN st.originals \ {file_path}
                   ELSE st.originals]

\* a copy2 whose exception leaves the loop
CopyFailedRaises(st, listed) == [st EXCEPT !.processed_info = listed, !.raised = TRUE]

\* lines 297 and 315-316: copy2 raised; the except clause prints a warning and
\* the loop goes on with what the lists hold
CopyFailed(st, listed) == [st EXCEPT !.processed_info = listed]

\* lines 258-316 for a file whose extension, name, type and destination are known
ProcessClassified(st, file_path, file_ext, file_name, file_type, destination, figures_output, delete_originals, io) ==
    The({IF ~(file_path \in st.originals /\ io.copy_ok)
         THEN CopyFailed(st, listed)
         ELSE The({AfterCopy(st, listed, file_path, file_ext, file_name, file_type,
                             destination, delete_originals, io, ex) :
                      ex \in {IF file_ext = ".docx"
                              THEN extract_images_from_docx(
                                       file_path, figures_output, io.archive, io.fault,
                                       WriteFile(st.fs, destination, file_path))
                              ELSE [extracted_images |-> <<>>,
                                    fs |-> WriteFile(st.fs, destination, file_path),
                                    caught |-> FALSE, raised |-> FALSE]}}) :
            listed \in {[st.processed_info EXCEPT ![CategoryKey(file_type)] =
                            Append(@, CategoryEntry(file_type, file_name, destination,
                                                    file_path, file_ext))]}})

\* One iteration of the loop over data_files.  st is [processed_info, fs,
\* originals, extractions, raised], extractions being the calls of
\* extract_images_from_docx made so far and raised whether an exception left
\* the iteration; io is what the file system does in this iteration: copy_ok
\* (copy2 succeeds when the original exists), the archive and fault of a
\* .docx, unlink_ok.  The except clause of line 315 ends the iteration wherever
\* the try block raised, so no exception leaves it.
ProcessFile(st, file_path, paper_output, delete_originals, io) ==
    The({The({ProcessClassified(st, file_path, file_ext, file_name, file_type,
                                OutputFolder(paper_output, file_type) \o "/" \o file_name,
                                OutputFolder(paper_output, "image"), delete_originals, io) :
                 file_type \in {FileType(file_ext)}}) :
            file_ext \in {FileExt(file_path)}, file_name \in {PathName(file_path)}})

RECURSIVE ProcessFiles(_, _, _, _, _, _)
\* the loop over data_files from position i on; ios[i] is what the file system
\* does in iteration i
ProcessFiles(st, data_files_, i, paper_output, delete_originals, ios) ==
    IF i > Len(data_files_) \/ st.raised THEN st
    ELSE The({ProcessFiles(next, data_files_, i + 1, paper_output, delete_originals, ios) :
                 next \in {ProcessFile(st, data_files_[i], paper_output,
                                       delete_originals, ios[i])}})

\* line 232: the exception of a mkdir that fails before the loop
MkdirError(paper_output_path) ==
    "[Errno 13] Permission denied: '" \o paper_output_path \o "/data'"

\* what is raised by an iteration that an exception left
LoopError == "Could not process file"

\* the call once the loop has ended in st
Returned(st) == IF st.raised THEN Raise(LoopError) ELSE Return(<<st>>)

\* The whole call on the state st: Return(<<>>) for None, Return(<<st'>>) with the
\* dictionary returned in st'.processed_info, or the exception of a mkdir that
\* failed before the loop
process_data_files(st, data_files_, paper_output_path, delete_originals, mkdir_ok, ios) ==
    IF data_files_ = <<>> THEN Return(<<>>)
    ELSE IF ~mkdir_ok THEN Raise(MkdirError(paper_output_path))
    ELSE The({Returned(last) :
                 last \in {ProcessFiles([st EXCEPT !.processed_info = EmptyProcessedInfo],
                                        data_files_, 1, paper_output_path,
                                        delete_originals, ios)}})

(***************************************************************************)
(* api.py: generate_paper, one block of the event stream                   *)
(***************************************************************************)
\* line 260: the text-originated candidate is emitted
TextAccept(stage, msg, current_stage_, last_message_) ==
    stage # current_stage_ /\ Truthy(msg) /\ msg.s # last_message_

\* a tool-originated candidate emitted without the comparison of line 286
ToolAcceptAlways(msg, last_message_) == TRUE

\* line 286: the tool-originated candidate is emitted
ToolAccept(msg, last_message_) == msg # last_message_

\* lines 260-267 on shown, which holds the locals of generate_paper that the loop
\* body reads and writes, the records yielded so far (out) and the exception
\* that left the body (exc); a is what _analyze_progress returned
EmitText(shown, a) ==
    IF TextAccept(a[1], a[2], shown.current_stage, shown.last_message)
    THEN [shown EXCEPT !.current_stage = a[1],
                       !.last_message = a[2].s,
                       !.out = Append(@, ProgressUpdate(a[2].s, a[1]))]
    ELSE shown

\* lines 249-267
HandleText(st, block) ==
    The({EmitText(shown, _analyze_progress(shown.accumulated_text, shown.current_stage)) :
            shown \in {[st EXCEPT !.accumulated_text = @ \o block.text,
                                  !.out = Append(@, TextUpdate(block.text))]}})

\* an emitter that does not remember the message it emitted
EmitToolUseForgetful(counted, tool_name, tool_progress, last_message_) ==
    IF tool_progress.raised THEN [counted EXCEPT !.exc = <<tool_progress.exc>>]
    ELSE IF tool_progress.val # <<>> /\ ToolAccept(tool_progress.val[2], last_message_)
    THEN [counted EXCEPT
             !.current_stage = tool_progress.val[1],
             !.out = Append(@, ProgressUpdateWithDetails(
                                   tool_progress.val[2], tool_progress.val[1],
                                   [tool |-> tool_name,
                                    tool_calls |-> counted.tool_call_count,
                                    files_created |-> Len(counted.files_written)]))]
    ELSE counted

\* an emitter that takes over the stage of a candidate it suppresses
EmitToolUseStageOfSuppressed(counted, tool_name, tool_progress, last_message_) ==
    IF tool_progress.raised THEN [counted EXCEPT !.exc = <<tool_progress.exc>>]
    ELSE IF tool_progress.val # <<>> /\ ToolAccept(tool_progress.val[2], last_message_)
    THEN [counted EXCEPT
             !.current_stage = tool_progress.val[1],
             !.last_message = tool_progress.val[2],
             !.out = Append(@, ProgressUpdateWithDetails(
                                   tool_progress.val[2], tool_progress.val[1],
                                   [tool |-> tool_name,
                                    tool_calls |-> counted.tool_call_count,
                                    files_created |-> Len(counted.files_written)]))]
    ELSE IF tool_progress.val # <<>>
    THEN [counted EXCEPT !.current_stage = tool_progress.val[1]]
    ELSE counted

\* an emitter that accepts no candidate of a stage before the current one
EmitToolUseMonotone(counted, tool_name, tool_progress, last_message_) ==
    IF tool_progress.raised THEN [counted EXCEPT !.exc = <<tool_progress.exc>>]
    ELSE IF /\ tool_progress.val # <<>>
            /\ ToolAccept(tool_progress.val[2], last_message_)
            /\ StageIndex(tool_progress.val[1]) >= CurrentIdx(counted.current_stage)
    THEN [counted EXCEPT
             !.current_stage = tool_progress.val[1],
             !.last_message = tool_progress.val[2],
             !.out = Append(@, ProgressUpdateWithDetails(
                                   tool_progress.val[2], tool_progress.val[1],
                                   [tool |-> tool_name,
                                    tool_calls |-> counted.tool_call_count,
                                    files_created |-> Len(counted.files_written)]))]
    ELSE counted

\* lines 284-298 on counted, after the count and the classification
EmitToolUse(counted, tool_name, tool_progress, last_message_) ==
    IF tool_progress.raised THEN [counted EXCEPT !.exc = <<tool_progress.exc>>]
    ELSE IF tool_progress.val # <<>> /\ ToolAccept(tool_progress.val[2], last_message_)
    THEN [counted EXCEPT
             !.current_stage = tool_progress.val[1],
             !.last_message = tool_progress.val[2],
             !.out = Append(@, ProgressUpdateWithDetails(
                                   tool_progress.val[2], tool_progress.val[1],
                                   [tool |-> tool_name,
                                    tool_calls |-> counted.tool_call_count,
                                    files_created |-> Len(counted.files_written)]))]
    ELSE counted

\* lines 276-279: files_written after a tool invocation
FilesWritten(files_written_, tool_name, file_path) ==
    IF Lower(tool_name) = "write" /\ Truthy(file_path)
    THEN Append(files_written_, file_path)
    ELSE files_written_

\* lines 270-298
HandleToolUse(st, block) ==
    The({EmitToolUse(counted, block.name, tool_progress, st.last_message) :
            counted \in {[st EXCEPT
                            !.tool_call_count = @ + 1,
                            !.files_written =
                                FilesWritten(@, block.name,
                                    DictGet(block.input, "file_path",
                                            DictGet(block.input, "path", PyStr(""))))]},
            tool_progress \in {_analyze_tool_use(block.name, block.input, st.current_stage)}})

HandleBlock(st, block) ==
    IF block.kind = "text" THEN HandleText(st, block)
    ELSE IF block.kind = "tool_use" THEN HandleToolUse(st, block)
    ELSE st

RECURSIVE HandleBlocks(_, _)
\* for block in message.content, until an exception leaves the loop
HandleBlocks(st, content) ==
    IF content = <<>> \/ st.exc # <<>> THEN st
    ELSE The({HandleBlocks(next, Tail(content)) : next \in {HandleBlock(st, Head(content))}})

\* lines 239-244: the totals after a message
AddUsage(totals_, track, message) ==
    IF track /\ message.usage # <<>>
    THEN LET usage == message.usage[1]
         IN  [total_input_tokens |-> totals_.total_input_tokens + usage.input_tokens,
              total_output_tokens |-> totals_.total_output_tokens + usage.output_tokens,
              total_cache_creation_tokens |->
                  totals_.total_cache_creation_tokens + usage.cache_creation_input_tokens,
              total_cache_read_tokens |->
                  totals_.total_cache_read_tokens + usage.cache_read_input_tokens]
    ELSE totals_

\* lines 310-318 and 365-374: the error result, with the usage when tracked
ErrorResult(error_message, track, totals_) ==
    IF track THEN WithTokenUsage(_create_error_result(error_message), TokenUsage(totals_))
    ELSE _create_error_result(error_message)

\* a test of line 309 that takes every resolution for a directory
ResolutionNeverFailed(output_directory_) == FALSE

\* line 309: if not output_directory
ResolutionFailed(output_directory_) == output_directory_.t = "none"

(***************************************************************************)
(* The inputs                                                              *)
(***************************************************************************)
\* the longest event stream
MaxMessages == 2

ToolInput(file_path, command, query_) ==
    [file_path |-> file_path, path |-> Absent, command |-> command, query |-> query_,
     search_term |-> Absent]

TextBlock(text) == [kind |-> "text", text |-> text]

ToolUseBlock(name, input) == [kind |-> "tool_use", name |-> name, input |-> input]

Blocks ==
    { TextBlock("Compiling the draft. "),
      TextBlock("PDF generated. "),
      ToolUseBlock("Write", ToolInput(PyStr("out/main.tex"), Absent, Absent)),
      ToolUseBlock("Write", ToolInput(PyStr("out/poster/main.tex"), Absent, Absent)),
      ToolUseBlock("Write", ToolInput(PyStr("out/paper.tex"), Absent, Absent)),
      ToolUseBlock("Write", ToolInput(PyNum, Absent, Absent)),
      ToolUseBlock("Edit", ToolInput(PyStr("out/main.tex"), Absent, Absent)),
      ToolUseBlock("Read", ToolInput(PyStr("notes.md"), Absent, Absent)),
      ToolUseBlock("Read", ToolInput(PyStr("old.tex/notes.md"), Absent, Absent)),
      ToolUseBlock("Bash", ToolInput(Absent, PyStr("mkdir -p output/figures"), Absent)),
      ToolUseBlock("Bash", ToolInput(Absent, PyStr("pdflatex main.tex"), Absent)),
      ToolUseBlock("TodoWrite", ToolInput(Absent, Absent, Absent)),
      ToolUseBlock("WebSearch", ToolInput(Absent, Absent, PyStr("CRISPR off-target effects"))) }

SomeUsage ==
    [input_tokens |-> 3, output_tokens |-> 2, cache_creation_input_tokens |-> 1,
     cache_read_input_tokens |-> 4]

\* the messages of the event source: one block each, a result message that
\* carries only usage, and an assistant message of several blocks with usage
Messages ==
    {[usage |-> <<>>, content |-> <<b>>] : b \in Blocks}
    \cup {[usage |-> <<SomeUsage>>, content |-> <<>>],
          [usage |-> <<SomeUsage>>,
           content |-> <<[kind |-> "thinking"],
                         TextBlock("Plan ready. "),
                         ToolUseBlock("Read", ToolInput(PyStr("refs.bib"), Absent, Absent))>>]}

\* str(e) of what the event source raises
StreamFaults == {"Command failed with exit code 1"}

Queries == {"Create a NeurIPS paper on transformers"}

work_dir == "/w"

\* the data folder of the working directory: a regular file and a directory
DataFolder ==
    [exists |-> TRUE,
     entries |-> <<[name |-> "measurements.csv", is_file |-> TRUE],
                   [name |-> "raw", is_file |-> FALSE]>>]

\* the data_files argument: none, or a list
DataFileLists == {<<>>, <<"paper.tex", "/in/results.CSV">>}

\* what the output folder holds when the stream has ended
OutputFolders(start) ==
    LET Folder(readable, entries) ==
            [path |-> work_dir \o "/writing_outputs", readable |-> readable, entries |-> entries]
        old == [name |-> "20240101_090000_old_paper", is_dir |-> TRUE, mtime |-> start - 10]
        new == [name |-> "20250101_120000_crispr", is_dir |-> TRUE, mtime |-> start + 1]
        log == [name |-> "run.log", is_dir |-> FALSE, mtime |-> start + 2]
    IN  {Folder(FALSE, <<>>), Folder(TRUE, <<>>), Folder(TRUE, <<log>>),
         Folder(TRUE, <<old>>), Folder(TRUE, <<old, new, log>>)}

\* what scan_paper_directory returns: a path or None in each single slot
ScanResults ==
    [pdf_final : {PyNone, PyStr("final/paper.pdf")},
     tex_final : {PyNone, PyStr("final/paper.tex")},
     tex_drafts : {<<>>},
     pdf_drafts : {<<>>},
     bibliography : {PyNone},
     figures : {<<>>, <<"figures/fig1.png">>},
     data : {<<>>},
     progress_log : {PyNone},
     summary : {PyNone}]

NoArchive == [valid |-> FALSE, namelist |-> <<>>]

NoFault == [at |-> 0, target_opened |-> FALSE]


\* the archive of a .docx: two images under word/media/, one of them with an
\* upper-case extension, a media entry that is no image, an image elsewhere
DocxArchive ==
    [valid |-> TRUE,
     namelist |-> <<"docProps/thumbnail.jpeg", "word/media/image1.png",
                    "word/media/notes.txt", "word/media/image2.JPG">>]

Archives == {NoArchive, DocxArchive}

\* zip_ref.open, open or write raising at an image entry of the archive, before
\* or after the target file was opened for writing
Faults(archive) ==
    {NoFault} \cup
    {[at |-> i, target_opened |-> o] :
        i \in {j \in DOMAIN archive.namelist : IsMediaImage(archive.namelist[j])},
        o \in BOOLEAN}

\* the longest list handed to process_data_files
MaxFiles == 2

\* the files a caller hands over, as get_data_files resolves them
InputFiles ==
    {"/in/paper.TEX", "/in/intro.tex", "/in/fig.png", "/in/results.csv",
     "/in/report.docx", "/in/notes", "/old/fig.png", "/in/image1.png"}

FileLists == UNION {[1..n -> InputFiles] : n \in 0..MaxFiles}

\* What the file system does in one iteration of the loop over file_path: the
\* archive is opened only after the copy of a .docx, the original unlinked only
\* after a copy and on request
Outcomes(file_path, delete_originals_) ==
    {io \in [copy_ok : BOOLEAN, unlink_ok : BOOLEAN, archive : Archives,
             fault : UNION {Faults(a) : a \in Archives}] :
        /\ io.fault \in Faults(io.archive)
        /\ (~io.copy_ok \/ FileExt(file_path) # ".docx") => io.archive = NoArchive
        /\ (~io.copy_ok \/ ~delete_originals_) => io.unlink_ok}

\* the most entries of an output folder
MaxDirs == 3

StartTimes == {96, 100}

\* modification times around the start times and their buffer
Mtimes == {90, 94, 95, 98, 101}

EntryKinds ==
    {[is_dir |-> TRUE, mtime |-> m] : m \in Mtimes} \cup {[is_dir |-> FALSE, mtime |-> 102]}

\* the listings of an output folder, in the order iterdir yields them
Listings ==
    {[i \in DOMAIN l |-> [name |-> "run" \o ToString(i), is_dir |-> l[i].is_dir,
                          mtime |-> l[i].mtime]] :
        l \in UNION {[1..n -> EntryKinds] : n \in 0..MaxDirs}}

Folders ==
    {[path |-> work_dir \o "/writing_outputs", readable |-> TRUE, entries |-> l] :
        l \in Listings}
    \cup {[path |-> work_dir \o "/writing_outputs", readable |-> FALSE, entries |-> <<>>]}

(***************************************************************************)
(* The state.  pc is where the program stands, out the records             *)
(* generate_paper has yielded, events the messages it has received, calls  *)
(* the collaborators it has called, caught the exception its except clause *)
(* caught, fault the exception that left the running function.             *)
(* file_index is the position of the loop of process_data_files and copies *)
(* what its iterations met.                                                *)
(***************************************************************************)
VARIABLES pc, out, fault, caught, calls, events,
          query, data_files, track_token_usage, start_time,
          current_stage, last_message, tool_call_count, files_written,
          accumulated_text, totals, output_directory,
          processed_info, fs, originals, extractions,
          delete_originals, file_index, copies,
          output_folder, file_info,
          tool_name, tool_input, tool_progress, filename, section, stage_msg

emitter_vars == <<current_stage, last_message, tool_call_count, files_written,
                  accumulated_text, totals>>

arg_vars == <<query, data_files, track_token_usage>>

pd_vars == <<processed_info, fs, originals, extractions>>

loop_vars == <<delete_originals, file_index, copies>>

pure_vars == <<output_folder, file_info>>

classify_vars == <<tool_name, tool_input, tool_progress, filename, section, stage_msg>>

vars == <<pc, out, fault, caught, calls, events, start_time, output_directory,
          arg_vars, emitter_vars, pd_vars, loop_vars, pure_vars,
                   classify_vars>>

ZeroTotals ==
    [total_input_tokens |-> 0, total_output_tokens |-> 0,
     total_cache_creation_tokens |-> 0, total_cache_read_tokens |-> 0]

\* nothing yielded, called, caught or raised yet
NothingDone ==
    /\ out = <<>>
    /\ fault = <<>>
    /\ caught = <<>>
    /\ calls = <<>>
    /\ events = <<>>

\* lines 215-226 and 236
EmitterStart ==
    /\ current_stage = "initialization"
    /\ last_message = ""
    /\ tool_call_count = 0
    /\ files_written = <<>>
    /\ accumulated_text = ""
    /\ totals = ZeroTotals

\* the file system before any file is ingested
FilesStart ==
    /\ processed_info = EmptyProcessedInfo
    /\ fs = <<>>
    /\ extractions = <<>>
    /\ file_index = 0
    /\ copies = <<>>

\* no block classified yet
ClassifyStart ==
    /\ tool_name = ""
    /\ tool_input = ToolInput(Absent, Absent, Absent)
    /\ tool_progress = Return(<<>>)
    /\ filename = ""
    /\ section = PyNone
    /\ stage_msg = <<"initialization", PyNone>>

NoFolder == [path |-> work_dir \o "/writing_outputs", readable |-> TRUE, entries |-> <<>>]

NoFileInfo == CHOOSE f \in ScanResults : f.pdf_final = PyNone /\ f.tex_final = PyNone
                                         /\ f.figures = <<>>

Init ==
    /\ pc = "start"
    /\ NothingDone
    /\ query \in Queries
    /\ data_files \in DataFileLists
    /\ track_token_usage \in BOOLEAN
    /\ start_time = 0
    /\ EmitterStart
    /\ output_directory = PyNone
    /\ FilesStart
    /\ originals = {"/w/paper.tex", "/in/results.CSV", "/w/data/measurements.csv"}
    /\ delete_originals = FALSE
    /\ output_folder = NoFolder
    /\ file_info = NoFileInfo
    /\ ClassifyStart

(***************************************************************************)
(* generate_paper                                                          *)
(***************************************************************************)
\* lines 123-158: the set-up up to the first yield; ensure_output_folder creates
\* the output folder, and its mkdir raises when the folder cannot be created
Initialize ==
    /\ pc = "start"
    /\ \E now \in {100}, mkdir_ok \in BOOLEAN :
          /\ start_time' = now
          /\ IF mkdir_ok
             THEN /\ out' = Append(out, ProgressUpdate("Initializing document generation",
                                                       "initialization"))
                  /\ pc' = "prepare"
                  /\ fault' = fault
             ELSE /\ pc' = "raised"
                  /\ fault' = <<"[Errno 13] Permission denied: '/w/writing_outputs'">>
                  /\ out' = out
    /\ UNCHANGED <<caught, calls, events, output_directory, arg_vars, emitter_vars,
                   pd_vars, loop_vars, pure_vars,
                   classify_vars>>

\* lines 160-232: the instructions are read (open() raises on an unreadable
\* WRITER.md), the data files announced, the emitter's locals set
Prepare ==
    /\ pc = "prepare"
    /\ \E read_ok \in BOOLEAN :
          IF ~read_ok
          THEN /\ pc' = "raised"
               /\ fault' = <<"[Errno 13] Permission denied: '/w/.claude/WRITER.md'">>
               /\ UNCHANGED <<out, output_directory, emitter_vars>>
          ELSE LET data_file_paths ==
                       IF data_files # <<>>
                       THEN get_data_files(work_dir, DataFolder,
                                           data_files)
                       ELSE <<>>
                   found == IF data_file_paths # <<>>
                            THEN <<ProgressUpdate("Found " \o ToString(Len(data_file_paths))
                                                  \o " data file(s) to process",
                                                  "initialization")>>
                            ELSE <<>>
               IN  /\ out' = Concat(out, found) \o
                             <<ProgressUpdateWithDetails("Starting document generation",
                                   "initialization", [query_length |-> Len(query)])>>
                   /\ current_stage' = "initialization"
                   /\ output_directory' = PyNone
                   /\ last_message' = ""
                   /\ tool_call_count' = 0
                   /\ files_written' = <<>>
                   /\ totals' = ZeroTotals
                   /\ accumulated_text' = ""
                   /\ pc' = "stream"
                   /\ fault' = fault
    /\ UNCHANGED <<caught, calls, events, start_time, arg_vars, pd_vars, loop_vars, pure_vars,
                   classify_vars>>

\* lines 364-374: the except clause yields the error result and the run ends
Except(yielded, phase, e, totals_) ==
    /\ out' = Append(yielded, ErrorResult("Error during document generation: " \o e,
                                          track_token_usage, totals_))
    /\ caught' = <<[phase |-> phase, exc |-> e]>>
    /\ pc' = "done"

\* lines 237-298: one message of the event source
ConsumeMessage(message) ==
    /\ pc = "stream"
    /\ Len(events) < MaxMessages
    /\ LET counted == AddUsage(totals, track_token_usage, message)
           st == HandleBlocks([current_stage |-> current_stage,
                               last_message |-> last_message,
                               tool_call_count |-> tool_call_count,
                               files_written |-> files_written,
                               accumulated_text |-> accumulated_text,
                               out |-> out, exc |-> <<>>],
                              message.content)
       IN  /\ totals' = counted
           /\ current_stage' = st.current_stage
           /\ last_message' = st.last_message
           /\ tool_call_count' = st.tool_call_count
           /\ files_written' = st.files_written
           /\ accumulated_text' = st.accumulated_text
           /\ IF st.exc # <<>>
              THEN Except(st.out, "stream", st.exc[1], counted)
              ELSE /\ out' = st.out
                   /\ pc' = "stream"
                   /\ caught' = caught
    /\ events' = Append(events, message)
    /\ UNCHANGED <<fault, calls, start_time, output_directory, arg_vars, pd_vars,
                   loop_vars, pure_vars,
                   classify_vars>>

\* line 237 raising: the event source fails
StreamRaises(e) ==
    /\ pc = "stream"
    /\ Except(out, "stream", e, totals)
    /\ UNCHANGED <<fault, calls, events, start_time, output_directory, arg_vars,
                   emitter_vars, pd_vars, loop_vars, pure_vars,
                   classify_vars>>

\* lines 300-319: the stream has ended; the output directory is resolved
StreamEnd(folder) ==
    /\ pc = "stream"
    /\ LET scanning == Append(out, ProgressUpdate("Scanning output directory", "complete"))
           found == _find_most_recent_output(folder, start_time)
       IN  /\ output_directory' = found
           /\ calls' = Append(calls, [fn |-> "_find_most_recent_output", arg |-> found])
           /\ IF ResolutionFailed(found)
              THEN /\ out' = Append(scanning,
                                    ErrorResult("Output directory not found after generation",
                                                track_token_usage, totals))
                   /\ pc' = "done"
              ELSE /\ out' = scanning
                   /\ pc' = "ingest"
    /\ output_folder' = folder
    /\ UNCHANGED <<fault, caught, events, start_time, arg_vars, emitter_vars, pd_vars,
                   loop_vars, file_info, classify_vars>>

\* what the file system does while a file is ingested through generate_paper
CopyOutcomes ==
    {[copy_ok |-> ok, unlink_ok |-> TRUE, archive |-> NoArchive, fault |-> NoFault] :
        ok \in BOOLEAN}

\* lines 331-339: the progress record of the ingestion
Processed(info) ==
    ProgressUpdate("Processed " \o ToString(Len(info.all_files)) \o " file(s)"
                   \o (IF Len(info.manuscript_files) > 0
                       THEN " (" \o ToString(Len(info.manuscript_files))
                            \o " manuscript(s) copied to drafts/)"
                       ELSE ""),
                   "complete")

\* lines 321-339: the input files are ingested into the resolved directory
Ingest ==
    /\ pc = "ingest"
    /\ data_files # <<>>
    /\ LET data_file_paths ==
               get_data_files(work_dir, DataFolder, data_files)
       IN  \E mkdir_ok \in BOOLEAN, ios \in [1..Len(data_file_paths) -> CopyOutcomes] :
              LET r == process_data_files(
                           [processed_info |-> processed_info, fs |-> fs,
                            originals |-> originals, extractions |-> extractions,
                            raised |-> FALSE],
                           data_file_paths, output_directory.s, FALSE, mkdir_ok, ios)
              IN  /\ calls' = Append(calls, [fn |-> "process_data_files",
                                             arg |-> output_directory])
                  /\ IF r.raised
                     THEN /\ Except(out, "ingest", r.exc, totals)
                          /\ UNCHANGED pd_vars
                     ELSE /\ out' = Append(out, Processed(r.val[1].processed_info))
                          /\ pc' = "scan"
                          /\ caught' = caught
                          /\ processed_info' = r.val[1].processed_info
                          /\ fs' = r.val[1].fs
                          /\ originals' = r.val[1].originals
                          /\ extractions' = r.val[1].extractions
    /\ UNCHANGED <<fault, events, start_time, output_directory, arg_vars, emitter_vars,
                   loop_vars, pure_vars,
                   classify_vars>>

\* lines 341-362: the directory is scanned and the result built; an exception of
\* the scan or of the aggregation (a file or the directory gone meanwhile) is
\* caught at lines 364-374
ScanAndBuild ==
    /\ pc = "scan" \/ (pc = "ingest" /\ data_files = <<>>)
    /\ calls' = Append(calls, [fn |-> "scan_paper_directory", arg |-> output_directory])
    /\ \/ \E scanned \in ScanResults :
             LET result == _build_paper_result(output_directory.s, scanned)
                 final == IF track_token_usage
                          THEN WithTokenUsage(result, TokenUsage(totals))
                          ELSE result
             IN  /\ out' = out \o <<ProgressUpdate("Document generation complete",
                                                   "complete"), final>>
                 /\ file_info' = scanned
                 /\ pc' = "done"
                 /\ caught' = caught
       \/ \E e \in {"[Errno 2] No such file or directory: '" \o output_directory.s \o "'"} :
             /\ Except(out, "scan", e, totals)
             /\ file_info' = file_info
    /\ UNCHANGED <<fault, events, start_time, output_directory, arg_vars, emitter_vars,
                   pd_vars, loop_vars, output_folder, classify_vars>>

Next ==
    \/ Initialize
    \/ Prepare
    \/ \E message \in Messages : ConsumeMessage(message)
    \/ \E e \in StreamFaults : StreamRaises(e)
    \/ \E folder \in OutputFolders(start_time) : StreamEnd(folder)
    \/ Ingest
    \/ ScanAndBuild

Spec == Init /\ [][Next]_vars

(***************************************************************************)
(* Properties of generate_paper                                            *)
(***************************************************************************)
IsProgress(record) == record.type = "progress"

IsResult(record) == record.type = "result"

\* the progress records yielded so far, in order
ProgressRecords == SelectSeq(out, IsProgress)

\* C1: no two consecutive progress records of a run carry the same message,
\* the fixed records before and after the stream included.
C1_NoConsecutiveDuplicate ==
    \A i \in 1..(Len(ProgressRecords) - 1) :
        ProgressRecords[i].message # ProgressRecords[i + 1].message

\* A finished run in which the same file was written twice in a row and the
\* second, identical candidate was suppressed.
C1_Witness ==
    /\ pc = "done"
    /\ files_written = <<PyStr("out/main.tex"), PyStr("out/main.tex")>>
    /\ Cardinality({i \in DOMAIN ProgressRecords :
                       ProgressRecords[i].message = "Creating main document structure"}) = 1
    /\ ProgressRecords[Len(ProgressRecords)].message = "Document generation complete"

\* C2: every run yields exactly one result record, as its last record, on every
\* path, a failure of the set-up included; no fault reaches the caller.
C2_ExactlyOneResultLast ==
    pc \in {"done", "raised"} =>
        /\ pc = "done"
        /\ fault = <<>>
        /\ Cardinality({i \in DOMAIN out : IsResult(out[i])}) = 1
        /\ IsResult(out[Len(out)])

RECURSIVE SumUsage(_, _)
\* the usage of the messages received, field by field
SumUsage(received, field) ==
    IF received = <<>> THEN 0
    ELSE (IF Head(received).usage # <<>> THEN Head(received).usage[1][field] ELSE 0)
         + SumUsage(Tail(received), field)

\* the run ended in the except clause on an exception of the stream
StreamFailed == pc = "done" /\ caught # <<>> /\ caught[1].phase = "stream"

\* C3: an exception raised while the stream is consumed ends the run with a
\* result record of status failed whose error list has exactly one entry, which
\* contains the description of the exception; with usage tracking the record
\* carries the usage summed over the messages received before the failure.
C3_StreamExceptionResult ==
    StreamFailed =>
        LET result == out[Len(out)]
        IN  /\ IsResult(result)
            /\ result.status = "failed"
            /\ Len(result.errors) = 1
            /\ Contains(result.errors[1], caught[1].exc)
            /\ track_token_usage =>
                  /\ "token_usage" \in DOMAIN result
                  /\ result.token_usage =
                        [input_tokens |-> SumUsage(events, "input_tokens"),
                         output_tokens |-> SumUsage(events, "output_tokens"),
                         cache_creation_input_tokens |->
                             SumUsage(events, "cache_creation_input_tokens"),
                         cache_read_input_tokens |->
                             SumUsage(events, "cache_read_input_tokens")]

\* The stream failed with usage tracked, after a message with usage was
\* received and a progress record of the stream was yielded.
C3_Witness ==
    /\ StreamFailed
    /\ track_token_usage
    /\ totals.total_input_tokens > 0
    /\ last_message # ""

\* the calls of the ingestion and of the scan
LaterCalls == {i \in DOMAIN calls : calls[i].fn \in {"process_data_files",
                                                    "scan_paper_directory"}}

\* the calls of the resolver
ResolverCalls == {i \in DOMAIN calls : calls[i].fn = "_find_most_recent_output"}

\* C4: when the resolver returns none the run ends with a failed result of one
\* error and empty directory and name, and neither process_data_files nor
\* scan_paper_directory is called; otherwise they are called only after the
\* resolution and on the one directory it returned.
C4_ResolutionGuardsLaterCalls ==
    /\ Cardinality(ResolverCalls) <= 1
    /\ \A i \in ResolverCalls :
          calls[i].arg = PyNone =>
              /\ pc = "done"
              /\ LaterCalls = {}
              /\ LET result == out[Len(out)]
                 IN  /\ IsResult(result)
                     /\ result.status = "failed"
                     /\ Len(result.errors) = 1
                     /\ result.paper_directory = ""
                     /\ result.paper_name = ""
    /\ \A i \in LaterCalls :
          \E j \in ResolverCalls :
              /\ j < i
              /\ calls[j].arg # PyNone
              /\ calls[i].arg = calls[j].arg

\* The resolver returned none in a run that was given input files, after
\* messages of the stream were handled.
C4_Witness ==
    /\ pc = "done"
    /\ data_files # <<>>
    /\ events # <<>>
    /\ \E i \in ResolverCalls : calls[i].arg = PyNone

(***************************************************************************)
(* process_data_files, iteration by iteration                              *)
(***************************************************************************)
paper_output_path == "/w/writing_outputs/20250101_120000_crispr"

InitIngest ==
    /\ pc = "pd_call"
    /\ NothingDone
    /\ query \in Queries
    /\ data_files \in FileLists
    /\ track_token_usage = FALSE
    /\ start_time = 0
    /\ EmitterStart
    /\ output_directory = PyStr(paper_output_path)
    /\ FilesStart
    /\ originals = InputFiles
    /\ delete_originals \in BOOLEAN
    /\ output_folder = NoFolder
    /\ file_info = NoFileInfo
    /\ ClassifyStart

\* lines 222-248: None for no files, the four folders made, the lists emptied
EnterProcessDataFiles ==
    /\ pc = "pd_call"
    /\ IF data_files = <<>>
       THEN /\ pc' = "pd_returned_none"
            /\ UNCHANGED <<fault, processed_info, file_index>>
       ELSE \E mkdir_ok \in BOOLEAN :
               IF mkdir_ok
               THEN /\ pc' = "pd_loop"
                    /\ processed_info' = EmptyProcessedInfo
                    /\ file_index' = 1
                    /\ fault' = fault
               ELSE /\ pc' = "pd_raised"
                    /\ fault' = <<MkdirError(output_directory.s)>>
                    /\ UNCHANGED <<processed_info, file_index>>
    /\ UNCHANGED <<out, caught, calls, events, start_time, output_directory, arg_vars,
                   emitter_vars, fs, originals, extractions, delete_originals, copies,
                   pure_vars,
                   classify_vars>>

\* lines 250-316: one iteration of the loop
ProcessNextFile ==
    /\ pc = "pd_loop"
    /\ file_index <= Len(data_files)
    /\ \E io \in Outcomes(data_files[file_index], delete_originals) :
       LET file_path == data_files[file_index]
           st == ProcessFile([processed_info |-> processed_info, fs |-> fs,
                              originals |-> originals, extractions |-> extractions,
                              raised |-> FALSE],
                             file_path, output_directory.s, delete_originals, io)
       IN  /\ processed_info' = st.processed_info
           /\ fs' = st.fs
           /\ originals' = st.originals
           /\ extractions' = st.extractions
           /\ copies' = Append(copies, [file_path |-> file_path,
                                        copied |-> file_path \in originals /\ io.copy_ok,
                                        io |-> io])
           /\ IF st.raised
              THEN /\ pc' = "pd_raised"
                   /\ fault' = <<LoopError>>
                   /\ file_index' = file_index
              ELSE /\ pc' = "pd_loop"
                   /\ fault' = fault
                   /\ file_index' = file_index + 1
    /\ UNCHANGED <<out, caught, calls, events, start_time, output_directory, arg_vars,
                   emitter_vars, delete_originals, pure_vars,
                   classify_vars>>

\* line 318: return processed_info
ReturnProcessedInfo ==
    /\ pc = "pd_loop"
    /\ file_index > Len(data_files)
    /\ pc' = "pd_returned"
    /\ UNCHANGED <<out, fault, caught, calls, events, start_time, output_directory,
                   arg_vars, emitter_vars, pd_vars, loop_vars, pure_vars,
                   classify_vars>>

NextIngest ==
    \/ EnterProcessDataFiles
    \/ ProcessNextFile
    \/ ReturnProcessedInfo

SpecIngest == InitIngest /\ [][NextIngest]_vars

(***************************************************************************)
(* _find_most_recent_output and _build_paper_result on their inputs        *)
(***************************************************************************)
InitPure ==
    /\ pc = "pure"
    /\ NothingDone
    /\ query \in Queries
    /\ data_files = <<>>
    /\ track_token_usage = FALSE
    /\ start_time \in StartTimes
    /\ EmitterStart
    /\ output_directory = PyNone
    /\ FilesStart
    /\ originals = {}
    /\ delete_originals = FALSE
    /\ output_folder \in Folders
    /\ file_info \in ScanResults
    /\ ClassifyStart

\* line 307
FindMostRecentOutput ==
    /\ pc = "pure"
    /\ output_directory' = _find_most_recent_output(output_folder, start_time)
    /\ pc' = "resolved"
    /\ UNCHANGED <<out, fault, caught, calls, events, start_time, arg_vars, emitter_vars,
                   pd_vars, loop_vars, pure_vars,
                   classify_vars>>

\* line 345, on a directory that was found
BuildPaperResult ==
    /\ pc = "resolved"
    /\ ~ResolutionFailed(output_directory)
    /\ out' = <<_build_paper_result(output_directory.s, file_info)>>
    /\ pc' = "built"
    /\ UNCHANGED <<fault, caught, calls, events, start_time, output_directory, arg_vars,
                   emitter_vars, pd_vars, loop_vars, pure_vars,
                   classify_vars>>

NextPure ==
    \/ FindMostRecentOutput
    \/ BuildPaperResult

SpecPure == InitPure /\ [][NextPure]_vars

(***************************************************************************)
(* Properties of _build_paper_result and _find_most_recent_output          *)
(***************************************************************************)
\* C5: for every scan result, compilation_success is true exactly when a final
\* PDF is present, and status is success with a final PDF, partial with a final
\* TeX but no final PDF, failed with neither; so status is success exactly when
\* compilation_success.
C5_StatusFromFinalFiles ==
    pc = "built" =>
        LET result == out[1]
            pdf == file_info.pdf_final # PyNone
            tex == file_info.tex_final # PyNone
        IN  /\ result.compilation_success = pdf
            /\ pdf => result.status = "success"
            /\ (~pdf /\ tex) => result.status = "partial"
            /\ (~pdf /\ ~tex) => result.status = "failed"
            /\ (result.status = "success") = result.compilation_success

\* A result built from a scan with a final TeX and no final PDF.
C5_Witness ==
    /\ pc = "built"
    /\ file_info.pdf_final = PyNone
    /\ file_info.tex_final # PyNone
    /\ out[1].status = "partial"

\* the subdirectories of the folder, by position in the listing
Subdirectories == {i \in DOMAIN output_folder.entries : output_folder.entries[i].is_dir}

\* those modified no earlier than 5 seconds before the start
Qualifying == {i \in Subdirectories : output_folder.entries[i].mtime >= start_time - 5}

\* output_directory is a directory of greatest modification time among pool
GreatestOf(pool) ==
    \E i \in pool :
        /\ \A j \in pool : output_folder.entries[j].mtime <= output_folder.entries[i].mtime
        /\ output_directory = PyStr(output_folder.path \o "/" \o output_folder.entries[i].name)

\* C6: _find_most_recent_output returns none for a folder without
\* subdirectories; otherwise a subdirectory of greatest modification time among
\* those modified at T - 5 or later, and when there is none of these, a
\* subdirectory of greatest modification time among all.
C6_MostRecentSelection ==
    (pc \in {"resolved", "built"} /\ output_folder.readable) =>
        IF Subdirectories = {} THEN output_directory = PyNone
        ELSE IF Qualifying # {} THEN GreatestOf(Qualifying)
        ELSE GreatestOf(Subdirectories)

\* The folder of the example: directories modified at T-10, T-2 and T+1, the
\* last of them returned.
C6_Witness ==
    /\ pc = "resolved"
    /\ output_folder.readable
    /\ Len(output_folder.entries) = 3
    /\ \A i \in 1..3 : output_folder.entries[i].is_dir
    /\ output_folder.entries[1].mtime = start_time - 10
    /\ output_folder.entries[2].mtime = start_time + 1
    /\ output_folder.entries[3].mtime = start_time - 2
    /\ output_directory = PyStr(output_folder.path \o "/run2")

(***************************************************************************)
(* Properties of process_data_files and extract_images_from_docx           *)
(***************************************************************************)
CategoryKeys == {"manuscript_files", "image_files", "data_files", "source_files"}

\* the category lists that hold an entry made for the input file
CategoriesOf(file_path) ==
    {key \in CategoryKeys :
        \E i \in DOMAIN processed_info[key] :
            /\ "original" \in DOMAIN processed_info[key][i]
            /\ processed_info[key][i].original = file_path}

\* the entries of a category list made for input files
Direct(key) == {i \in DOMAIN processed_info[key] : "original" \in DOMAIN processed_info[key][i]}

\* the lower-cased extension of the file of iteration k
ExtensionOf(k) == Lower(PathSuffix(copies[k].file_path))

\* the category the ordered lookup gives an extension
LookedUp(ext) ==
    IF ext \in get_manuscript_extensions THEN "manuscript_files"
    ELSE IF ext \in get_image_extensions THEN "image_files"
    ELSE IF ext \in get_data_extensions THEN "data_files"
    ELSE "source_files"

\* C7: every input file, whatever its extension and its casing, is put in
\* exactly one of the categories manuscript, image, data, source, looked up in
\* that order with source as the default, and files of the same extension get
\* the same category.
C7_ClassificationTotalDeterministic ==
    /\ \A k \in DOMAIN copies :
          CategoriesOf(copies[k].file_path) = {LookedUp(ExtensionOf(k))}
    /\ Cardinality(Direct("manuscript_files")) + Cardinality(Direct("image_files"))
          + Cardinality(Direct("data_files")) + Cardinality(Direct("source_files"))
          = Len(copies)
    /\ \A k, l \in DOMAIN copies :
          ExtensionOf(k) = ExtensionOf(l) =>
              CategoriesOf(copies[k].file_path) = CategoriesOf(copies[l].file_path)

\* A call that returned after classifying .TEX and .tex as manuscripts, or a
\* file without extension as a source.
C7_Witness ==
    /\ pc = "pd_returned"
    /\ data_files = <<"/in/paper.TEX", "/in/intro.tex">>
    /\ Len(processed_info.manuscript_files) = 2

\* the destinations of the files whose copy succeeded, in the order of the list
RECURSIVE CopiedDestinations(_)
CopiedDestinations(k) ==
    IF k = 0 THEN <<>>
    ELSE IF copies[k].copied
    THEN Append(CopiedDestinations(k - 1),
                OutputFolder(output_directory.s, FileType(FileExt(copies[k].file_path)))
                    \o "/" \o PathName(copies[k].file_path))
    ELSE CopiedDestinations(k - 1)

\* C8: a failure while one input file is copied or post-processed is confined
\* to that file: no iteration raises, every file of the list is gone through,
\* and every file whose copy succeeds is among the processed files.
C8_CopyFailureConfined ==
    /\ pc = "pd_raised" => copies = <<>>
    /\ pc = "pd_returned" => Len(copies) = Len(data_files)
    /\ pc \in {"pd_loop", "pd_returned"} =>
          /\ Len(processed_info.all_files) = Len(CopiedDestinations(Len(copies)))
          /\ \A i \in DOMAIN processed_info.all_files :
                processed_info.all_files[i].destination =
                    CopiedDestinations(Len(copies))[i]

\* A call that returned after the copy of its first file failed and the copy
\* of its second file succeeded.
C8_Witness ==
    /\ pc = "pd_returned"
    /\ Len(copies) = 2
    /\ ~copies[1].copied
    /\ copies[2].copied
    /\ Len(processed_info.all_files) = 1

\* the image entries under the media path, by position in the listing
MediaImages(archive) ==
    {i \in DOMAIN archive.namelist :
        /\ StartsWith(archive.namelist[i], "word/media/")
        /\ Lower(PathSuffix(archive.namelist[i])) \in get_image_extensions}

\* the names reported by a call of the extractor
Reported(call) == {call.returned[i].name : i \in DOMAIN call.returned}

\* C9: extract_images_from_docx never raises; for a well-formed archive read
\* without error it returns exactly one record per image entry under the media
\* path, and for an input that is no archive it returns no record.
C9_ExtractorNeverRaises ==
    \A c \in DOMAIN extractions :
        LET call == extractions[c]
        IN  /\ ~call.raised
            /\ (call.archive.valid /\ call.fault = NoFault) =>
                  /\ Len(call.returned) = Cardinality(MediaImages(call.archive))
                  /\ Reported(call) =
                        {PathName(call.archive.namelist[i]) : i \in MediaImages(call.archive)}
            /\ ~call.archive.valid => call.returned = <<>>

\* Two calls have been made: one on an archive with two images and one other
\* media entry, which returned two records, and one on a file that is no
\* archive, which returned none.
C9_Witness ==
    /\ Len(extractions) = 2
    /\ extractions[1].archive = DocxArchive
    /\ extractions[1].fault = NoFault
    /\ Len(extractions[1].returned) = 2
    /\ ~extractions[2].archive.valid
    /\ extractions[2].caught

\* C10: an error on one entry of the archive skips only that entry; every other
\* image entry under the media path, those after it included, is extracted and
\* reported.
C10_EntryErrorSkipsOnlyEntry ==
    \A c \in DOMAIN extractions :
        LET call == extractions[c]
        IN  call.archive.valid =>
                \A i \in MediaImages(call.archive) \ {call.fault.at} :
                    PathName(call.archive.namelist[i]) \in Reported(call)

(***************************************************************************)
(* The classifiers on their arguments: a tool_use block handled by the     *)
(* emitter (lines 270-298) from any stage, _get_section_from_filename on a *)
(* file name, _analyze_progress on a text.                                 *)
(***************************************************************************)
Stages == {stage_order[i] : i \in DOMAIN stage_order}

\* names the classifier knows, in other casings too, and names it does not
ToolNames ==
    {"Read", "Write", "WRITE", "Edit", "Bash", "WebSearch", "research-lookup",
     "TodoWrite", "NotebookEdit", "Task", "Glob"}

\* argument mappings: keys missing, strings, null, a number
ToolInputs ==
    [file_path : {Absent, PyStr(""), PyStr("out/main.tex"), PyStr("drafts/Results.tex"),
                  PyNone, PyNum},
     path : {Absent, PyNum},
     command : {Absent, PyStr("mkdir -p output/figures"), PyStr("ls drafts"), PyNum},
     query : {Absent, PyStr("CRISPR off-target effects"), PyNum},
     search_term : {Absent}]

\* what the emitter emitted last before the block
LastMessages == {"", "Creating main document structure"}

\* manuscript file names: one keyword, several keywords, none, other casings
Filenames ==
    {"abstract.tex", "Abstract.TEX", "01_intro.tex", "introduction.tex", "INTRODUCTION.md",
     "methods.tex", "methodology.tex", "Methodology.tex", "results.tex",
     "results_discussion.tex", "discussion_results.tex", "conclusion.tex",
     "conclusions.tex", "CONCLUSIONS.tex", "background_related.tex", "related_work.tex",
     "experiments.tex", "evaluation.md", "appendix_a.tex", "supplement.tex",
     "main.tex", "refs.bib", ""}

\* accumulated texts: no indicator, each indicator, both, other casings
Texts ==
    {"", "Let me plan the paper. ", "Running PDFLATEX now. ", "latexmk finished. ",
     "Compiling the draft. ", "Successfully compiled. ", "PDF generated. ",
     "Compiling the draft. PDF generated. "}

InitClassify ==
    /\ NothingDone
    /\ query \in Queries
    /\ data_files = <<>>
    /\ track_token_usage = FALSE
    /\ start_time = 0
    /\ tool_call_count = 0
    /\ files_written = <<>>
    /\ totals = ZeroTotals
    /\ output_directory = PyNone
    /\ FilesStart
    /\ originals = {}
    /\ delete_originals = FALSE
    /\ output_folder = NoFolder
    /\ file_info = NoFileInfo
    /\ tool_progress = Return(<<>>)
    /\ section = PyNone
    /\ stage_msg = <<"initialization", PyNone>>
    /\ \/ /\ pc = "tool"
          /\ tool_name \in ToolNames
          /\ tool_input \in ToolInputs
          /\ current_stage \in Stages
          /\ last_message \in LastMessages
          /\ filename = ""
          /\ accumulated_text = ""
       \/ /\ pc = "section"
          /\ filename \in Filenames
          /\ tool_name = ""
          /\ tool_input = ToolInput(Absent, Absent, Absent)
          /\ current_stage = "initialization"
          /\ last_message = ""
          /\ accumulated_text = ""
       \/ /\ pc = "text"
          /\ accumulated_text \in Texts
          /\ current_stage \in Stages
          /\ tool_name = ""
          /\ tool_input = ToolInput(Absent, Absent, Absent)
          /\ last_message = ""
          /\ filename = ""

\* lines 270-298, and 364-374 when the classifier raises
ToolUseHandled ==
    /\ pc = "tool"
    /\ tool_progress' = _analyze_tool_use(tool_name, tool_input, current_stage)
    /\ LET st == HandleToolUse([current_stage |-> current_stage,
                                last_message |-> last_message,
                                tool_call_count |-> tool_call_count,
                                files_written |-> files_written,
                                accumulated_text |-> accumulated_text,
                                out |-> out, exc |-> <<>>],
                               ToolUseBlock(tool_name, tool_input))
       IN  /\ current_stage' = st.current_stage
           /\ last_message' = st.last_message
           /\ tool_call_count' = st.tool_call_count
           /\ files_written' = st.files_written
           /\ IF st.exc # <<>>
              THEN Except(st.out, "stream", st.exc[1], totals)
              ELSE /\ out' = st.out
                   /\ pc' = "tool_done"
                   /\ caught' = caught
    /\ UNCHANGED <<fault, calls, events, start_time, output_directory, arg_vars,
                   accumulated_text, totals, pd_vars, loop_vars, pure_vars,
                   tool_name, tool_input, filename, section, stage_msg>>

\* lines 479, 500 and 527: section = _get_section_from_filename(filename)
SectionFromFilename ==
    /\ pc = "section"
    /\ section' = _get_section_from_filename(filename)
    /\ pc' = "section_done"
    /\ UNCHANGED <<out, fault, caught, calls, events, start_time, output_directory,
                   arg_vars, emitter_vars, pd_vars, loop_vars, pure_vars,
                   tool_name, tool_input, tool_progress, filename, stage_msg>>

\* line 257: stage, msg = _analyze_progress(accumulated_text, current_stage)
ProgressAnalyzed ==
    /\ pc = "text"
    /\ stage_msg' = _analyze_progress(accumulated_text, current_stage)
    /\ pc' = "text_done"
    /\ UNCHANGED <<out, fault, caught, calls, events, start_time, output_directory,
                   arg_vars, emitter_vars, pd_vars, loop_vars, pure_vars,
                   tool_name, tool_input, tool_progress, filename, section>>

NextClassify ==
    \/ ToolUseHandled
    \/ SectionFromFilename
    \/ ProgressAnalyzed

SpecClassify == InitClassify /\ [][NextClassify]_vars

(***************************************************************************)
(* Properties of the classifiers                                           *)
(***************************************************************************)
\* C11: _analyze_tool_use returns none or a (stage, message) pair and never
\* raises, whatever the tool name, the current stage and the argument mapping
\* (keys missing, values that are null or a number), so a malformed argument
\* never ends a run in a failed result.
C11_ToolUseNeverRaises ==
    pc \in {"tool_done", "done"} =>
        /\ ~tool_progress.raised
        /\ Len(tool_progress.val) \in {0, 2}
        /\ caught = <<>>
        /\ \A i \in DOMAIN out : ~IsResult(out[i])

\* the tool name is none of read, write, edit, bash in any casing and contains
\* none of research, lookup, search, web
Unrecognised(name) ==
    /\ Lower(name) \notin {"read", "write", "edit", "bash"}
    /\ \A part \in {"research", "lookup", "search", "web"} : ~Contains(Lower(name), part)

\* C12: for a tool name that is not recognised, _analyze_tool_use returns none
\* for every argument mapping and current stage, and the emitter emits no
\* progress record and leaves current stage and last message as they were.
C12_UnrecognisedToolIgnored ==
    [][(pc = "tool" /\ Unrecognised(tool_name)) =>
          /\ tool_progress' = Return(<<>>)
          /\ out' = out
          /\ current_stage' = current_stage
          /\ last_message' = last_message]_vars

\* the section keywords in their fixed lookup order
LookupOrder ==
    <<"abstract", "intro", "introduction", "method", "methods", "methodology", "result",
      "results", "discussion", "conclusion", "conclusions", "background", "related",
      "experiment", "experiments", "evaluation", "appendix", "supplement">>

\* the positions in the lookup order of the keywords that occur in the name,
\* whatever its casing
KeywordsIn(name) == {i \in DOMAIN LookupOrder : Contains(Lower(name), LookupOrder[i])}

\* the section a keyword stands for
SectionOf(key) ==
    section_mappings[CHOOSE k \in DOMAIN section_mappings : section_mappings[k][1] = key][2]

\* C13: for a file name that contains a section keyword the section returned
\* depends on the lower-cased name only, and is the section of the first
\* keyword, in the fixed lookup order, that occurs in the name.
C13_FirstKeywordInLookupOrder ==
    (pc = "section_done" /\ KeywordsIn(filename) # {}) =>
        \E i \in KeywordsIn(filename) :
            /\ \A j \in KeywordsIn(filename) : i <= j
            /\ section = PyStr(SectionOf(LookupOrder[i]))

\* An upper-case name in which two keywords occur, conclusion and conclusions,
\* classified by the first of them.
C13_Witness ==
    /\ pc = "section_done"
    /\ filename = "CONCLUSIONS.tex"
    /\ Cardinality(KeywordsIn(filename)) = 2
    /\ section = PyStr("conclusion")

\* C14: when several keywords occur in the file name, the section returned is
\* that of the longest keyword that occurs: methodology rather than methods,
\* conclusions rather than conclusion.
C14_LongestKeywordWins ==
    (pc = "section_done" /\ KeywordsIn(filename) # {}) =>
        \E i \in KeywordsIn(filename) :
            /\ \A j \in KeywordsIn(filename) : Len(LookupOrder[j]) <= Len(LookupOrder[i])
            /\ section = PyStr(SectionOf(LookupOrder[i]))

(***************************************************************************)
(* Properties of the emitter in generate_paper                             *)
(***************************************************************************)
\* a progress record that came from a tool invocation
IsToolRecord(record) ==
    /\ IsProgress(record)
    /\ "details" \in DOMAIN record
    /\ "tool" \in DOMAIN record.details

\* the tool-originated progress records yielded so far, in order
ToolRecords == SelectSeq(out, IsToolRecord)

\* the message of the event source that holds the one block
OneBlock(block) == [usage |-> <<>>, content |-> <<block>>]

MkdirFigures == ToolUseBlock("Bash", ToolInput(Absent, PyStr("mkdir -p output/figures"), Absent))

\* C15: for the stream of the one bash invocation "mkdir -p output/figures" the
\* emitter emits exactly one tool-originated progress record, of stage
\* initialization and message "Setting up figures directory", letter case
\* ignored.
C15_MkdirFiguresScenario ==
    events = <<OneBlock(MkdirFigures)>> =>
        /\ Len(ToolRecords) = 1
        /\ ToolRecords[1].stage = "initialization"
        /\ Lower(ToolRecords[1].message) = "setting up figures directory"

\* s ends with tail
EndsWith(s, tail) == Len(tail) <= Len(s) /\ SubSeq(s, Len(s) - Len(tail) + 1, Len(s)) = tail

\* the message is one write invocation whose path ends in main.tex
IsWriteMain(message) ==
    /\ Len(message.content) = 1
    /\ message.content[1].kind = "tool_use"
    /\ Lower(message.content[1].name) = "write"
    /\ message.content[1].input.file_path.t = "str"
    /\ EndsWith(message.content[1].input.file_path.s, "main.tex")

\* the path written by such a message
WrittenPath(message) == message.content[1].input.file_path.s

\* the words by which a path names its document type
DocTypeWords == {"slide", "presentation", "beamer", "poster", "report", "grant", "proposal"}

\* the first event was a write of main.tex and it was handled
FirstWroteMain == events # <<>> /\ IsWriteMain(events[1]) /\ ToolRecords # <<>>

\* the write of main.tex was followed at once by the identical write
WroteMainTwice == Len(events) = 2 /\ IsWriteMain(events[1]) /\ events[2] = events[1]

\* C16 as stated: for every write invocation whose path ends in main.tex the
\* emitter, from the initial state, emits (writing, "Creating main document
\* structure"), letter case ignored, and the identical write that follows at
\* once emits nothing.
C16_WriteMainAsStated ==
    /\ FirstWroteMain =>
          /\ ToolRecords[1].stage = "writing"
          /\ Lower(ToolRecords[1].message) = "creating main document structure"
    /\ WroteMainTwice => Len(ToolRecords) = 1

\* C16 amended: the message is "Creating main document structure" when the
\* path contains no document-type word and names the document type found in
\* the path otherwise; the stage is writing and the identical write that
\* follows at once emits nothing in both cases.
C16_WriteMainByDocType ==
    /\ FirstWroteMain =>
          /\ ToolRecords[1].stage = "writing"
          /\ ToolRecords[1].details.tool_calls = 1
          /\ IF \A word \in DocTypeWords : ~Contains(Lower(WrittenPath(events[1])), word)
             THEN Lower(ToolRecords[1].message) = "creating main document structure"
             ELSE ToolRecords[1].message =
                      "Creating main " \o _detect_document_type(WrittenPath(events[1]))
                      \o " structure"
    /\ WroteMainTwice => Len(ToolRecords) = 1

\* out/main.tex was written twice in a row from the initial state: one record
\* for the first write, none for the second.
C16_Witness ==
    /\ pc = "stream"
    /\ WroteMainTwice
    /\ WrittenPath(events[1]) = "out/main.tex"
    /\ tool_call_count = 2
    /\ Len(ToolRecords) = 1
    /\ ToolRecords[1].message = "Creating main document structure"

\* ---- Properties of _analyze_progress ----

\* the position of a stage in the progression
Rank == [stage \in Stages |->
            CASE stage = "initialization" -> 0
              [] stage = "planning" -> 1
              [] stage = "research" -> 2
              [] stage = "writing" -> 3
              [] stage = "compilation" -> 4
              [] stage = "complete" -> 5]

\* C17: _analyze_progress never returns a stage earlier than the current one;
\* it returns (compilation, message) only when the current stage is strictly
\* before compilation, (complete, message) only when it is strictly before
\* complete, and (current stage, none) in every other case.
C17_ProgressNeverRegresses ==
    pc = "text_done" =>
        /\ stage_msg[1] \in Stages
        /\ Rank[stage_msg[1]] >= Rank[current_stage]
        /\ \/ /\ stage_msg = <<"compilation", PyStr("Compiling document")>>
              /\ Rank[current_stage] < Rank["compilation"]
           \/ /\ stage_msg = <<"complete", PyStr("Finalizing output")>>
              /\ Rank[current_stage] < Rank["complete"]
           \/ stage_msg = <<current_stage, PyNone>>

\* A text that names pdflatex, analysed when compilation is already the
\* current stage: the stage is kept and there is no message.
C17_Witness ==
    /\ pc = "text_done"
    /\ current_stage = "compilation"
    /\ accumulated_text = "Running PDFLATEX now. "
    /\ stage_msg = <<"compilation", PyNone>>

\* ---- The details of the tool-originated records ----

\* the positions of the tool invocations in a sequence of messages
Invocations(messages) ==
    {<<i, j>> \in (1..Len(messages)) \X (1..3) :
        /\ j <= Len(messages[i].content)
        /\ messages[i].content[j].kind = "tool_use"}

\* the paths that the write invocations in a sequence of messages name
WriteTargets(messages) ==
    {messages[at[1]].content[at[2]].input.file_path :
        at \in {w \in Invocations(messages) :
                   /\ Lower(messages[w[1]].content[w[2]].name) = "write"
                   /\ messages[w[1]].content[w[2]].input.file_path.t = "str"
                   /\ messages[w[1]].content[w[2]].input.file_path.s # ""}}

\* C18: a tool-originated record carries tool_calls, the number of tool
\* invocations consumed so far (those that gave no record included), and
\* files_created, the number of distinct write target paths seen so far.
C18_DetailsCountDistinctWrites ==
    [][(Len(events') = Len(events) + 1 /\ Len(ToolRecords') = Len(ToolRecords) + 1) =>
          /\ ToolRecords'[Len(ToolRecords')].details.tool_calls
                 = Cardinality(Invocations(events'))
          /\ ToolRecords'[Len(ToolRecords')].details.files_created
                 = Cardinality(WriteTargets(events'))]_vars

\* the tool_calls half of the same statement
ToolCallsCountInvocations ==
    [][(Len(events') = Len(events) + 1 /\ Len(ToolRecords') = Len(ToolRecords) + 1) =>
          ToolRecords'[Len(ToolRecords')].details.tool_calls
              = Cardinality(Invocations(events'))]_vars

\* ---- The input files of generate_paper ----

\* the regular files of the data folder of the working directory
DataFolderFiles ==
    {work_dir \o "/data/" \o DataFolder.entries[i].name :
        i \in {k \in DOMAIN DataFolder.entries : DataFolder.entries[k].is_file}}

\* the listed files, resolved against the working directory
ListedFiles == {Resolve(work_dir, data_files[i]) : i \in DOMAIN data_files}

\* the run got as far as the scan of its output directory
Scanned == \E i \in DOMAIN calls : calls[i].fn = "scan_paper_directory"

\* the calls of process_data_files
IngestCalls == {i \in DOMAIN calls : calls[i].fn = "process_data_files"}

\* the names of the files routed into the output directory
RoutedNames == {processed_info.all_files[i].name : i \in DOMAIN processed_info.all_files}

\* C19: without an input file list every regular file of the data folder of
\* the working directory is taken as input and routed into the output
\* directory of the run; with a list exactly the listed files are.
C19_InputsFromListOrDataFolder ==
    Scanned =>
        IF data_files = <<>>
        THEN /\ DataFolderFiles # {} => IngestCalls # {}
             /\ RoutedNames \subseteq {PathName(p) : p \in DataFolderFiles}
        ELSE /\ IngestCalls # {}
             /\ RoutedNames \subseteq {PathName(p) : p \in ListedFiles}

\* the half of the statement about a supplied list: the files are ingested
\* once, and each listed file whose copy went through is routed
ListedFilesIngested ==
    (Scanned /\ data_files # <<>>) =>
        /\ Cardinality(IngestCalls) = 1
        /\ RoutedNames \subseteq {PathName(p) : p \in ListedFiles}

\* ---- The emitter keeps no order of the stages ----

\* the message is one tool invocation
IsOneToolUse(message) ==
    Len(message.content) = 1 /\ message.content[1].kind = "tool_use"

\* what the classifier makes of the one invocation of a message in a stage
Candidate(message, stage) ==
    _analyze_tool_use(message.content[1].name, message.content[1].input, stage)

\* the step consumes a message of one tool invocation
ConsumesOneToolUse ==
    /\ pc = "stream"
    /\ Len(events') = Len(events) + 1
    /\ IsOneToolUse(events'[Len(events')])

\* C20: the emitter starts in initialization and keeps no order of the
\* stages: a candidate of a tool invocation whose message differs from the
\* last emitted one is accepted whatever its stage, an earlier one included;
\* on acceptance the record is emitted and both the current stage and the
\* last message are set before the next event is classified.
C20_NoMonotonicity ==
    [][/\ (pc = "stream" /\ events = <<>>) =>
              current_stage = "initialization" /\ last_message = ""
       /\ ConsumesOneToolUse =>
            LET candidate == Candidate(events'[Len(events')], current_stage)
            IN  (/\ ~candidate.raised
                 /\ candidate.val # <<>>
                 /\ candidate.val[2] # last_message) =>
                    /\ current_stage' = candidate.val[1]
                    /\ last_message' = candidate.val[2]
                    /\ Len(ToolRecords') = Len(ToolRecords) + 1
                    /\ ToolRecords'[Len(ToolRecords')].stage = candidate.val[1]
                    /\ ToolRecords'[Len(ToolRecords')].message = candidate.val[2]]_vars

\* After a pdflatex run had brought the emitter to compilation, an edit of
\* the manuscript was accepted and set the stage back to writing.
C20_Witness ==
    /\ pc = "stream"
    /\ Len(events) = 2
    /\ Len(ToolRecords) = 2
    /\ ToolRecords[1].stage = "compilation"
    /\ ToolRecords[2].stage = "writing"
    /\ ToolRecords[2].details.tool = "Edit"
    /\ current_stage = "writing"
    /\ last_message = ToolRecords[2].message

(***************************************************************************)
(* One tool invocation repeated: the loop body of generate_paper consumes  *)
(* the same tool_use block again and again, from any state of the emitter. *)
(***************************************************************************)
MaxRepeats == 4

\* the invocations that are repeated: each tool, messages that depend on the
\* current stage and messages that do not, no message, a malformed argument
RepeatedBlocks ==
    { ToolUseBlock("Write", ToolInput(PyStr("out/paper.tex"), Absent, Absent)),
      ToolUseBlock("Write", ToolInput(PyStr("out/main.tex"), Absent, Absent)),
      ToolUseBlock("Write", ToolInput(PyStr("out/README.md"), Absent, Absent)),
      ToolUseBlock("Write", ToolInput(PyStr("out/notes.txt"), Absent, Absent)),
      ToolUseBlock("Write", ToolInput(PyNum, Absent, Absent)),
      ToolUseBlock("Edit", ToolInput(PyStr("out/main.tex"), Absent, Absent)),
      ToolUseBlock("Edit", ToolInput(PyStr("out/notes.txt"), Absent, Absent)),
      ToolUseBlock("Read", ToolInput(PyStr("refs.bib"), Absent, Absent)),
      ToolUseBlock("Read", ToolInput(PyStr("out/notes.txt"), Absent, Absent)),
      ToolUseBlock("Bash", ToolInput(Absent, PyStr("pdflatex main.tex"), Absent)),
      ToolUseBlock("Bash", ToolInput(Absent, PyStr("mkdir -p output/figures"), Absent)),
      ToolUseBlock("Bash", ToolInput(Absent, PyStr("python plot.py"), Absent)),
      ToolUseBlock("Bash", ToolInput(Absent, PyStr("ls drafts"), Absent)),
      ToolUseBlock("WebSearch", ToolInput(Absent, Absent, PyStr("CRISPR off-target effects"))),
      ToolUseBlock("TodoWrite", ToolInput(Absent, Absent, Absent)) }

\* what the emitter emitted last before the first of the invocations
RepeatLastMessages ==
    {"", "Writing document: paper.tex", "Updating paper.tex", "Compiling LaTeX to PDF"}

InitRepeat ==
    /\ pc = "repeat"
    /\ NothingDone
    /\ query \in Queries
    /\ data_files = <<>>
    /\ track_token_usage = FALSE
    /\ start_time = 0
    /\ current_stage \in Stages
    /\ last_message \in RepeatLastMessages
    /\ tool_call_count = 0
    /\ files_written = <<>>
    /\ accumulated_text = ""
    /\ totals = ZeroTotals
    /\ output_directory = PyNone
    /\ FilesStart
    /\ originals = {}
    /\ delete_originals = FALSE
    /\ output_folder = NoFolder
    /\ file_info = NoFileInfo
    /\ \E block \in RepeatedBlocks : tool_name = block.name /\ tool_input = block.input
    /\ tool_progress = Return(<<>>)
    /\ filename = ""
    /\ section = PyNone
    /\ stage_msg = <<"initialization", PyNone>>

\* lines 270-298 on the same block once more, and 364-374 when the classifier
\* raises
ToolUseRepeated ==
    /\ pc = "repeat"
    /\ tool_call_count < MaxRepeats
    /\ tool_progress' = _analyze_tool_use(tool_name, tool_input, current_stage)
    /\ LET st == HandleToolUse([current_stage |-> current_stage,
                                last_message |-> last_message,
                                tool_call_count |-> tool_call_count,
                                files_written |-> files_written,
                                accumulated_text |-> accumulated_text,
                                out |-> out, exc |-> <<>>],
                               ToolUseBlock(tool_name, tool_input))
       IN  /\ current_stage' = st.current_stage
           /\ last_message' = st.last_message
           /\ tool_call_count' = st.tool_call_count
           /\ files_written' = st.files_written
           /\ IF st.exc # <<>>
              THEN Except(st.out, "stream", st.exc[1], totals)
              ELSE /\ out' = st.out
                   /\ pc' = "repeat"
                   /\ caught' = caught
    /\ UNCHANGED <<fault, calls, events, start_time, output_directory, arg_vars,
                   accumulated_text, totals, pd_vars, loop_vars, pure_vars,
                   tool_name, tool_input, filename, section, stage_msg>>

NextRepeat == ToolUseRepeated

SpecRepeat == InitRepeat /\ [][NextRepeat]_vars

\* C21: when one tool invocation is repeated with no other event in between,
\* from any current stage, the emitter emits at most two progress records for
\* the whole run of repeats, and from the third invocation on the current
\* stage and the last message no longer change.
C21_RepeatsSettleAfterTwo ==
    [][/\ Len(ProgressRecords') <= 2
       /\ tool_call_count >= 2 =>
              /\ current_stage' = current_stage
              /\ last_message' = last_message
              /\ ProgressRecords' = ProgressRecords]_vars

\* Four writes of out/paper.tex from the initial stage: two records, the
\* second of which moved the emitter to compilation, where it stays.
C21_Witness ==
    /\ pc = "repeat"
    /\ tool_call_count >= 3
    /\ tool_name = "Write"
    /\ tool_input.file_path = PyStr("out/paper.tex")
    /\ Len(ProgressRecords) = 2
    /\ ProgressRecords[1].message = "Writing document: paper.tex"
    /\ ProgressRecords[2].message = "Updating paper.tex"
    /\ current_stage = "compilation"

\* ---- What a suppressed candidate leaves alone ----

\* the message is one text block
IsOneText(message) == Len(message.content) = 1 /\ message.content[1].kind = "text"

\* the step consumes a message of one text block
ConsumesOneText ==
    /\ pc = "stream"
    /\ Len(events') = Len(events) + 1
    /\ IsOneText(events'[Len(events')])

\* what the text analysis makes of the text accumulated with the block
TextCandidate(message) ==
    _analyze_progress(accumulated_text \o message.content[1].text, current_stage)

\* the emitter's stage, last message and progress records stay as they are
EmitterKept ==
    /\ current_stage' = current_stage
    /\ last_message' = last_message
    /\ ProgressRecords' = ProgressRecords

\* C22: a suppressed candidate (of a tool, with the message emitted last; of a
\* text, with the current stage, without message, or with the message emitted
\* last) leaves the current stage and the last message unchanged, whatever
\* stage it carried.
C22_SuppressedCandidateChangesNothing ==
    [][/\ ConsumesOneToolUse =>
            LET candidate == Candidate(events'[Len(events')], current_stage)
            IN  (/\ ~candidate.raised
                 /\ candidate.val # <<>>
                 /\ candidate.val[2] = last_message) => EmitterKept
       /\ ConsumesOneText =>
            LET candidate == TextCandidate(events'[Len(events')])
            IN  (\/ candidate[1] = current_stage
                 \/ candidate[2] = PyNone
                 \/ candidate[2] = PyStr(last_message)) => EmitterKept]_vars

\* notes.md was read, which gave (planning, "Reading notes.md"); then
\* old.tex/notes.md was read, whose candidate (writing, "Reading notes.md")
\* was suppressed: the stage is still planning.
C22_Witness ==
    /\ pc = "stream"
    /\ Len(events) = 2
    /\ IsOneToolUse(events[2])
    /\ events[2].content[1].input.file_path = PyStr("old.tex/notes.md")
    /\ Candidate(events[2], current_stage) = Return(<<"writing", last_message>>)
    /\ current_stage = "planning"
    /\ last_message = "Reading notes.md"
    /\ Len(ToolRecords) = 1

\* ---- The resolver and the start time ----

\* start times from before every modification time to after all of them
AnyStartTimes == 80..110

\* C23: the result of _find_most_recent_output does not depend on the start
\* time: for a folder with subdirectories it is a subdirectory of greatest
\* modification time among all, and every other start time gives the same
\* directory; the recency filter never changes the selection.
C23_StartTimeIrrelevant ==
    (pc \in {"resolved", "built"} /\ output_folder.readable /\ Subdirectories # {}) =>
        /\ GreatestOf(Subdirectories)
        /\ \A t \in AnyStartTimes :
              _find_most_recent_output(output_folder, t) = output_directory

\* Directories modified at 90 and at 94 with the start at 100: neither passes
\* the filter, which the later one would pass with the start at 96; the later
\* one is returned.
C23_Witness ==
    /\ pc = "resolved"
    /\ start_time = 100
    /\ Len(output_folder.entries) = 2
    /\ output_folder.entries[1] = [name |-> "run1", is_dir |-> TRUE, mtime |-> 90]
    /\ output_folder.entries[2] = [name |-> "run2", is_dir |-> TRUE, mtime |-> 94]
    /\ Qualifying = {}
    /\ output_directory = PyStr(output_folder.path \o "/run2")

\* ---- The destinations of one batch ----

\* the iterations whose copy went through
CopiedFiles == {k \in DOMAIN copies : copies[k].copied}

\* where iteration k copied its file
Destination(k) ==
    OutputFolder(output_directory.s, FileType(FileExt(copies[k].file_path)))
        \o "/" \o PathName(copies[k].file_path)

\* the paths at which the images of the .docx inputs were written
ExtractedPaths ==
    UNION {{extractions[e].returned[i].path : i \in DOMAIN extractions[e].returned} :
              e \in DOMAIN extractions}

\* C24: in one batch distinct input files, and the images extracted from .docx
\* inputs, are written to distinct destinations, so that no file written in
\* the batch overwrites another; with delete_originals set the content of
\* every deleted original is at its recorded destination when the call
\* returns.
C24_NoOverwriteInBatch ==
    pc = "pd_returned" =>
        /\ \A j, k \in CopiedFiles :
              copies[j].file_path # copies[k].file_path => Destination(j) # Destination(k)
        /\ \A k \in CopiedFiles : Destination(k) \notin ExtractedPaths
        /\ \A k \in CopiedFiles :
              copies[k].file_path \notin originals =>
                  fs[Destination(k)] = copies[k].file_path

\* ---- The categories and all_files ----

\* the destinations recorded in all_files
RecordedDestinations ==
    {processed_info.all_files[i].destination : i \in DOMAIN processed_info.all_files}

\* C25: after process_data_files has returned, every input file recorded in
\* manuscript_files, data_files, source_files or, as a file supplied directly,
\* in image_files is recorded in all_files too: a file is reported under a
\* category only if its copy succeeded.  Hence the manuscript count of the
\* "Processed N file(s)" message never exceeds N.
C25_CategoriesWithinAllFiles ==
    pc = "pd_returned" =>
        /\ \A key \in CategoryKeys : \A i \in Direct(key) :
              processed_info[key][i].path \in RecordedDestinations
        /\ Cardinality(Direct("manuscript_files")) + Cardinality(Direct("image_files"))
              + Cardinality(Direct("data_files")) + Cardinality(Direct("source_files"))
              <= Len(processed_info.all_files)
        /\ Len(processed_info.manuscript_files) <= Len(processed_info.all_files)
====
